---- MODULE Spec2Model ----
(***************************************************************************)
(* The A* solver of the 8-puzzle (src/astar.ts) and the puzzle model it    *)
(* uses (puzzleLogic.ts).  One call of performAStarSearch is a state       *)
(* machine: the call, then one step per node taken from the frontier and   *)
(* one step per pass of the loop over that node's neighbours.              *)
(*                                                                         *)
(* Arrays are JavaScript objects: a board lives in `heap` and is named by  *)
(* its reference, so that writing through an alias is visible.  A board is *)
(* a sequence; JavaScript index i is position i + 1 of the sequence.       *)
(* Search nodes live in the arena `nodes`; a node is named by its position *)
(* in the arena and `parent` is such a position (0 is JavaScript null).    *)
(***************************************************************************)
EXTENDS Integers, Sequences, FiniteSets, TLC

VARIABLES
  pc,            \* "call" | "loop" | "for" | "done": position in performAStarSearch
  heap,          \* the board arrays, by reference
  initialState,  \* parameter: reference of the caller's start board
  adjacencyMap,  \* parameter: the adjacency table
  nodes,         \* every SearchNode created so far
  openSet,       \* the frontier: a JavaScript array of node references
  closedSet,     \* Set<string> of serialized boards
  currentNode,   \* the node taken from the frontier by the last iteration (0: none)
  emptyIdx,      \* the blank's JavaScript index in currentNode's board
  forIndex,      \* position of the for loop in movablePieceSquareNumbers
  result,        \* what the call returned
  args,          \* the arguments of a direct call of an exported helper
  returned,      \* what that call returned
  self,          \* which invocation of performAStarSearch is running
  suspended,     \* the frames of the invocations that are not running
  squareChildren, \* gameUI: the piece elements each of this.squares holds
  freeClass,     \* gameUI: the squares whose classList contains 'free'
  freeSquareId,  \* gameUI: this.freeSquareId, as the number n of '#sq-n'
  currentMoves,  \* gameUI: this.currentMoves
  solutionActions, \* gameUI: this.solutionActions
  moveIndex,     \* gameUI: moveIndex of animateSolution
  botMessageArea, \* gameUI: the text shown in #bot_message
  buttonsDisabled, \* gameUI: the disabled property of the Mix and Solve buttons
  squareClicks,  \* gameUI: the click listener is bound to the squares
  transition,    \* gameUI: the tile transition whose transitionend is awaited
  timer,         \* gameUI: the pending setTimeout callback
  winDisplay,    \* gameUI: the win display is shown
  events,        \* the number of clicks delivered since the page was loaded
  html           \* the squares and pieces of the document as it is served

\* The page of gameUI.ts: the DOM it reads and writes and the fields of
\* GameUIController.
page == <<squareChildren, freeClass, freeSquareId, currentMoves, solutionActions,
          moveIndex, botMessageArea, buttonsDisabled, squareClicks,
          transition, timer, winDisplay, events, html>>

vars == <<pc, heap, initialState, adjacencyMap, nodes, openSet, closedSet,
          currentNode, emptyIdx, forIndex, result, args, returned, self,
          suspended, page>>

\* What lies outside the running invocation of performAStarSearch: no step
\* of the search reads or writes it.
outside == <<args, returned, self, suspended, page>>

\* No text has been written to #bot_message.
NoMessage == [text |-> "", count |-> 0]

\* No tile is in transition.
NoTransition == [from |-> 0, to |-> 0, by |-> "none"]

\* No page is loaded: the functions are called without gameUI.
NoPage ==
  /\ squareChildren = <<>>
  /\ freeClass = {}
  /\ freeSquareId = 0
  /\ currentMoves = 0
  /\ solutionActions = <<>>
  /\ moveIndex = 0
  /\ botMessageArea = NoMessage
  /\ buttonsDisabled = FALSE
  /\ squareClicks = FALSE
  /\ transition = NoTransition
  /\ timer = "none"
  /\ winDisplay = FALSE
  /\ events = 0
  /\ html = <<>>

(***************************************************************************)
(* puzzleLogic.ts                                                          *)
(***************************************************************************)
NUM_SQUARES == 9

GOAL_STATE == <<1, 2, 3, 4, 5, 6, 7, 8, 0>>

\* A table in which square 9 lists square 8 only, while 6 still lists 9.
POS_ADJACENCY_OneWay ==
  (1 :> <<2, 4>>) @@ (2 :> <<1, 3, 5>>) @@ (3 :> <<2, 6>>) @@
  (4 :> <<1, 7, 5>>) @@ (5 :> <<2, 4, 6, 8>>) @@ (6 :> <<3, 5, 9>>) @@
  (7 :> <<4, 8>>) @@ (8 :> <<7, 5, 9>>) @@ (9 :> <<8>>)

POS_ADJACENCY ==
  (1 :> <<2, 4>>) @@ (2 :> <<1, 3, 5>>) @@ (3 :> <<2, 6>>) @@
  (4 :> <<1, 7, 5>>) @@ (5 :> <<2, 4, 6, 8>>) @@ (6 :> <<3, 5, 9>>) @@
  (7 :> <<4, 8>>) @@ (8 :> <<7, 5, 9>>) @@ (9 :> <<8, 6>>)

\* JavaScript null in a board slot; no tile has this value.
null == -1

\* The reference under which the module constant GOAL_STATE lives in the heap.
GoalRef == 1

getSquareNumberFromIndex(index0) == index0 + 1

\* The conversion without the shift by one.
getIndexFromSquareNumberUnshifted(squareNumber1) == squareNumber1

getIndexFromSquareNumber(squareNumber1) == squareNumber1 - 1

\* Array.prototype.indexOf: the first JavaScript index holding v, or -1.
indexOf(arr, v) ==
  IF \E i \in 1..Len(arr) : arr[i] = v
  THEN (CHOOSE i \in 1..Len(arr) :
          arr[i] = v /\ \A j \in 1..(i - 1) : arr[j] # v) - 1
  ELSE -1

\* JavaScript undefined: what reading an array outside its length gives.
undefined == -2

\* arr[i] read: the element, or undefined outside the array.
At(arr, i) == IF i \in 0..(Len(arr) - 1) THEN arr[i + 1] ELSE undefined

\* arr[i] = v: inside the array the slot is written; at or beyond the length
\* the array grows, the slots in between left empty (they read undefined); a
\* negative i names a property and leaves the elements alone.
Store(arr, i, v) ==
  IF i \in 0..(Len(arr) - 1) THEN [arr EXCEPT ![i + 1] = v]
  ELSE IF i >= Len(arr)
    THEN arr \o [k \in 1..(i - Len(arr)) |-> undefined] \o <<v>>
  ELSE arr

\* The loop of isSolved from slot i on (lines 34-38): false at the first slot
\* that differs from GOAL_STATE's, true when all slots of GOAL_STATE are passed.
RECURSIVE isSolvedFrom(_, _)
isSolvedFrom(boardState, i) ==
  IF i >= Len(GOAL_STATE) THEN TRUE
  ELSE IF At(boardState, i) # At(GOAL_STATE, i) THEN FALSE
  ELSE isSolvedFrom(boardState, i + 1)

\* isSolved without the comparison of the lengths.
isSolvedIgnoringLength(boardState) == isSolvedFrom(boardState, 0)

isSolved(boardState) ==
  IF Len(boardState) # Len(GOAL_STATE) THEN FALSE
  ELSE isSolvedFrom(boardState, 0)

\* Mutant: the slot the tile leaves is not set to 0.
applyMoveLeavesTile(currentBoardState, pieceToMoveIndex, targetEmptyIndex) ==
  LET newBoardState == currentBoardState
      tileValue == At(newBoardState, pieceToMoveIndex)
  IN IF tileValue = null THEN newBoardState
     ELSE IF At(newBoardState, targetEmptyIndex) # 0 THEN newBoardState
     ELSE Store(newBoardState, targetEmptyIndex, tileValue)

\* Mutant: the test that the target slot holds 0 is missing.
applyMoveUnchecked(currentBoardState, pieceToMoveIndex, targetEmptyIndex) ==
  LET newBoardState == currentBoardState
      tileValue == At(newBoardState, pieceToMoveIndex)
  IN IF tileValue = null THEN newBoardState
     ELSE Store(Store(newBoardState, targetEmptyIndex, tileValue),
                pieceToMoveIndex, 0)

\* The contents of the array applyMove returns, from the contents of the
\* array it is given.
applyMove(currentBoardState, pieceToMoveIndex, targetEmptyIndex) ==
  LET newBoardState == currentBoardState
      tileValue == At(newBoardState, pieceToMoveIndex)
  IN IF tileValue = null THEN newBoardState
     ELSE IF At(newBoardState, targetEmptyIndex) # 0 THEN newBoardState
     ELSE Store(Store(newBoardState, targetEmptyIndex, tileValue),
                pieceToMoveIndex, 0)

(***************************************************************************)
(* astar.ts: the pure helpers                                              *)
(***************************************************************************)
\* Mutant: the difference is summed with its sign.
AbsSigned(x) == x

\* Mutant: the squared difference in place of the absolute value.
AbsSquared(x) == x * x

Abs(x) == IF x < 0 THEN -x ELSE x

\* The value getManhattanDistance returns for a size that is not a square.
Infinity == 1000000

IsPerfectSquare(n) == \E d \in 0..n : d * d = n

\* Mutant: const dimension = numSquares, the square root forgotten.
SqrtForgotten(n) == n

Sqrt(n) == CHOOSE d \in 0..n : d * d = n

RECURSIVE SumDistancesCountingBlank(_, _, _, _)
\* Mutant: the test tileValue !== 0 is missing, the blank is summed too.
SumDistancesCountingBlank(boardState, goalState, dimension, i) ==
  IF i >= Len(boardState) THEN 0
  ELSE LET tileValue == boardState[i + 1]
           targetIndex == indexOf(goalState, tileValue)
           rest == SumDistancesCountingBlank(boardState, goalState, dimension, i + 1)
       IN IF tileValue # null /\ targetIndex # -1
          THEN Abs((i \div dimension) - (targetIndex \div dimension))
               + Abs((i % dimension) - (targetIndex % dimension)) + rest
          ELSE rest

RECURSIVE SumDistances(_, _, _, _)
\* The for loop of getManhattanDistance from JavaScript index i on.
SumDistances(boardState, goalState, dimension, i) ==
  IF i >= Len(boardState) THEN 0
  ELSE LET tileValue == boardState[i + 1]
           targetIndex == indexOf(goalState, tileValue)
           rest == SumDistances(boardState, goalState, dimension, i + 1)
       IN IF tileValue # 0 /\ tileValue # null /\ targetIndex # -1
          THEN Abs((i \div dimension) - (targetIndex \div dimension))
               + Abs((i % dimension) - (targetIndex % dimension)) + rest
          ELSE rest

\* Mutant: the goalState parameter is ignored for the module's GOAL_STATE.
getManhattanDistanceToGoal(boardState, goalState, numSquares) ==
  IF ~IsPerfectSquare(numSquares) THEN Infinity
  ELSE SumDistances(boardState, GOAL_STATE, Sqrt(numSquares), 0)

getManhattanDistance(boardState, goalState, numSquares) ==
  IF ~IsPerfectSquare(numSquares) THEN Infinity
  ELSE SumDistances(boardState, goalState, Sqrt(numSquares), 0)

\* The action held by the start node (JavaScript null).
NullAction == [tileValue |-> -1, fromIndex |-> -1, toIndex |-> -1]

\* Mutant: f is the cost so far, without the heuristic.
createSearchNodeWithoutH(state, parent, action, g, h) ==
  [state |-> state, parent |-> parent, action |-> action,
   g |-> g, h |-> h, f |-> g]

createSearchNode(state, parent, action, g, h) ==
  [state |-> state, parent |-> parent, action |-> action,
   g |-> g, h |-> h, f |-> g + h]

\* Mutant: the comparison loop stops one slot early.
areArraysEqualButLast(arr1, arr2) ==
  /\ Len(arr1) = Len(arr2)
  /\ \A i \in 1..(Len(arr1) - 1) : arr1[i] = arr2[i]

areArraysEqual(arr1, arr2) ==
  /\ Len(arr1) = Len(arr2)
  /\ \A i \in 1..Len(arr1) : arr1[i] = arr2[i]

\* Array.prototype.toString: the elements joined by commas, null as "".
ElementToString(v) == IF v = null THEN "" ELSE ToString(v)

RECURSIVE JoinFrom(_, _)
JoinFrom(arr, i) ==
  IF i > Len(arr) THEN ""
  ELSE (IF i = 1 THEN "" ELSE ",") \o ElementToString(arr[i])
       \o JoinFrom(arr, i + 1)

toString(arr) == JoinFrom(arr, 1)

RECURSIVE ReconstructFrom(_, _, _)
\* The while loop of reconstructPath: unshift the action, go to the parent.
ReconstructFrom(ns, node, path) ==
  IF node # 0 /\ ns[node].parent # 0
  THEN ReconstructFrom(ns, ns[node].parent,
         IF ns[node].action # NullAction
         THEN <<ns[node].action>> \o path ELSE path)
  ELSE path

RECURSIVE ReconstructPushing(_, _, _)
ReconstructPushing(ns, node, path) ==
  IF node # 0 /\ ns[node].parent # 0
  THEN ReconstructPushing(ns, ns[node].parent, Append(path, ns[node].action))
  ELSE path

\* Mutant: the actions are pushed instead of unshifted (goal to start).
reconstructPathPushes(ns, node) == ReconstructPushing(ns, node, <<>>)

RECURSIVE ReconstructBelowRoot(_, _, _)
ReconstructBelowRoot(ns, node, path) ==
  IF node # 0 /\ ns[node].parent # 0 /\ ns[ns[node].parent].parent # 0
  THEN ReconstructBelowRoot(ns, ns[node].parent, <<ns[node].action>> \o path)
  ELSE path

\* Mutant: the walk stops one node below the root and loses the first action.
reconstructPathDropsFirst(ns, node) == ReconstructBelowRoot(ns, node, <<>>)

reconstructPath(ns, node) == ReconstructFrom(ns, node, <<>>)

\* The f values of the nodes of arr.
FValues(ns, arr) == {ns[arr[i]].f : i \in 1..Len(arr)}

Min(S) == CHOOSE x \in S : \A y \in S : x <= y

Max(S) == CHOOSE x \in S : \A y \in S : y <= x

RECURSIVE BucketsFrom(_, _, _, _)
\* The nodes of arr with f from v to last, by increasing f; nodes of equal
\* f in the order they have in arr.
BucketsFrom(ns, arr, v, last) ==
  IF v > last THEN <<>>
  ELSE LET HasF(n) == ns[n].f = v
       IN SelectSeq(arr, HasF) \o BucketsFrom(ns, arr, v + 1, last)

\* Mutant: the frontier is left in the order of insertion.
sortByFKeepsOrder(ns, arr) == arr

\* openSet.sort((a, b) => a.f - b.f).  Array.prototype.sort is stable: the
\* result is by increasing f and nodes of equal f keep their order.
sortByF(ns, arr) ==
  IF arr = <<>> THEN <<>>
  ELSE BucketsFrom(ns, arr, Min(FValues(ns, arr)), Max(FValues(ns, arr)))

(***************************************************************************)
(* astar.ts: performAStarSearch                                            *)
(***************************************************************************)
NoResult == [kind |-> "pending", path |-> <<>>]

\* No helper is called directly while performAStarSearch runs.
NoCall == [fn |-> "none"]

NotReturned == [kind |-> "pending"]

ReturnNull == [kind |-> "null", path |-> <<>>]

ReturnPath(path) == [kind |-> "path", path |-> path]

\* Mutant: const neighborState = currentNode.state, the same array.
SpreadCopyAliases(h, ref) == [heap |-> h, ref |-> ref]

\* const neighborState = [...currentNode.state]: a new array with the
\* contents of the array ref names; gives the heap and the new reference.
SpreadCopy(h, ref) == [heap |-> Append(h, h[ref]), ref |-> Len(h) + 1]

\* The scan of openSet for a node holding neighborState: its JavaScript
\* index, or -1.
existingNodeInOpenSetIndex(h, ns, open, neighborState) ==
  IF \E i \in 1..Len(open) : areArraysEqual(h[ns[open[i]].state], neighborState)
  THEN (CHOOSE i \in 1..Len(open) :
          /\ areArraysEqual(h[ns[open[i]].state], neighborState)
          /\ \A j \in 1..(i - 1) :
               ~areArraysEqual(h[ns[open[j]].state], neighborState)) - 1
  ELSE -1

\* Mutant: the first element is read and left in the array.
shiftKeeps(arr) == arr

\* openSet.shift(): the array without its first element.
shift(arr) == Tail(arr)

\* Mutant: the test for a missing blank is never true.
blankNotFoundIgnored(blankIdx) == FALSE

\* if (emptyIdx === -1): indexOf found no blank.
blankNotFound(blankIdx) == blankIdx = -1

\* Mutant: fromIndex and toIndex are exchanged.
MoveActionSwapped(tileValueMoved, pieceToMoveIndex, blankIdx) ==
  [tileValue |-> tileValueMoved, fromIndex |-> blankIdx,
   toIndex |-> pieceToMoveIndex]

\* const action = { tileValue, fromIndex, toIndex }
MoveAction(tileValueMoved, pieceToMoveIndex, blankIdx) ==
  [tileValue |-> tileValueMoved, fromIndex |-> pieceToMoveIndex,
   toIndex |-> blankIdx]

\* openSet.splice(index, 1)
splice(arr, index) ==
  SubSeq(arr, 1, index) \o SubSeq(arr, index + 2, Len(arr))

\* Mutant: no board is ever found in the closed set.
hasNever(set, value) == FALSE

\* closedSet.has(neighborStateStr)
has(set, value) == value \in set

\* Mutant: the tile is written into the blank's slot and its own slot is
\* not cleared.
VisitNeighborKeepsTile(st, cur, blankIdx, movablePieceSquareNum) ==
  LET pieceToMoveIndex == getIndexFromSquareNumber(movablePieceSquareNum)
      curState == st.nodes[cur].state
      tileValueMoved == st.heap[curState][pieceToMoveIndex + 1]
      copy == SpreadCopy(st.heap, curState)
      written == [copy.heap EXCEPT ![copy.ref] =
                    [@ EXCEPT ![blankIdx + 1] = tileValueMoved]]
      neighborState == written[copy.ref]
      dropped == SubSeq(written, 1, Len(st.heap))
      neighborStateStr == toString(neighborState)
      gScore == st.nodes[cur].g + 1
      hScore == getManhattanDistance(neighborState, written[GoalRef], NUM_SQUARES)
      fScore == gScore + hScore
      existing == existingNodeInOpenSetIndex(written, st.nodes, st.openSet,
                                             neighborState)
      action == MoveAction(tileValueMoved, pieceToMoveIndex, blankIdx)
      neighborNode == createSearchNode(copy.ref, cur, action, gScore, hScore)
      openAfter == IF existing # -1 THEN splice(st.openSet, existing)
                   ELSE st.openSet
  IN IF tileValueMoved = null THEN st
     ELSE IF has(st.closedSet, neighborStateStr)
       THEN [st EXCEPT !.heap = dropped]
     ELSE IF existing # -1 /\ st.nodes[st.openSet[existing + 1]].f <= fScore
       THEN [st EXCEPT !.heap = dropped]
     ELSE [heap |-> written,
           nodes |-> Append(st.nodes, neighborNode),
           openSet |-> Append(openAfter, Len(st.nodes) + 1),
           closedSet |-> st.closedSet \cup {neighborStateStr}]

\* One pass of the body of `for (const movablePieceSquareNum of ...)`, for
\* a table that lists squares of the board (1..9) only.
\* st holds heap, nodes, openSet and closedSet as the pass finds them.  An
\* array that no node holds when the pass ends is garbage and leaves the heap.
VisitNeighbor(st, cur, blankIdx, movablePieceSquareNum) ==
  LET pieceToMoveIndex == getIndexFromSquareNumber(movablePieceSquareNum)
      curState == st.nodes[cur].state
      tileValueMoved == st.heap[curState][pieceToMoveIndex + 1]
      copy == SpreadCopy(st.heap, curState)
      written == [copy.heap EXCEPT ![copy.ref] =
                    [[@ EXCEPT ![blankIdx + 1] = tileValueMoved]
                        EXCEPT ![pieceToMoveIndex + 1] = 0]]
      neighborState == written[copy.ref]
      dropped == SubSeq(written, 1, Len(st.heap))
      neighborStateStr == toString(neighborState)
      gScore == st.nodes[cur].g + 1
      hScore == getManhattanDistance(neighborState, written[GoalRef], NUM_SQUARES)
      fScore == gScore + hScore
      existing == existingNodeInOpenSetIndex(written, st.nodes, st.openSet,
                                             neighborState)
      action == MoveAction(tileValueMoved, pieceToMoveIndex, blankIdx)
      neighborNode == createSearchNode(copy.ref, cur, action, gScore, hScore)
      openAfter == IF existing # -1 THEN splice(st.openSet, existing)
                   ELSE st.openSet
  IN IF tileValueMoved = null THEN st
     ELSE IF has(st.closedSet, neighborStateStr)
       THEN [st EXCEPT !.heap = dropped]
     ELSE IF existing # -1 /\ st.nodes[st.openSet[existing + 1]].f <= fScore
       THEN [st EXCEPT !.heap = dropped]
     ELSE [heap |-> written,
           nodes |-> Append(st.nodes, neighborNode),
           openSet |-> Append(openAfter, Len(st.nodes) + 1),
           closedSet |-> st.closedSet \cup {neighborStateStr}]

\* Mutant: the for loop ends after its first pass.
forDoneAfterFirst(index, squares) == index > Len(squares) \/ index > 1

\* The for loop has passed every listed square.
forDone(index, squares) == index > Len(squares)

\* What one iteration finds after openSet.sort and openSet.shift.  The
\* frontier is not empty there, so shift gives a node and the branch
\* `if (!currentNode) return null` is never taken.
Sorted == sortByF(nodes, openSet)

Selected == Head(Sorted)

EmptyIdx == indexOf(heap[nodes[Selected].state], 0)

\* const movablePieceSquareNumbers = adjacencyMap[emptySquareNumber]
movablePieceSquareNumbers == adjacencyMap[getSquareNumberFromIndex(emptyIdx)]

SelectedIsGoal == areArraysEqual(heap[nodes[Selected].state], heap[GoalRef])

(***************************************************************************)
(* The actions                                                             *)
(***************************************************************************)
\* Lines 111-113: the start board is the goal.
AlreadySolved ==
  /\ pc = "call"
  /\ areArraysEqual(heap[initialState], heap[GoalRef])
  /\ result' = ReturnPath(<<>>)
  /\ pc' = "done"
  /\ UNCHANGED <<heap, initialState, adjacencyMap, nodes, openSet, closedSet,
                 currentNode, emptyIdx, forIndex, outside>>

\* Lines 115-128: the start node, the frontier and the closed set.
Seed ==
  /\ pc = "call"
  /\ ~areArraysEqual(heap[initialState], heap[GoalRef])
  /\ nodes' = <<createSearchNode(initialState, 0, NullAction, 0,
                  getManhattanDistance(heap[initialState], heap[GoalRef],
                                       NUM_SQUARES))>>
  /\ openSet' = <<1>>
  /\ closedSet' = {toString(heap[initialState])}
  /\ pc' = "loop"
  /\ UNCHANGED <<heap, initialState, adjacencyMap, currentNode, emptyIdx,
                 forIndex, result, outside>>

\* Lines 130-143: the node taken from the frontier holds the goal.
ReachGoal ==
  /\ pc = "loop"
  /\ openSet # <<>>
  /\ SelectedIsGoal
  /\ openSet' = shift(Sorted)
  /\ currentNode' = Selected
  /\ result' = ReturnPath(reconstructPath(nodes, Selected))
  /\ pc' = "done"
  /\ UNCHANGED <<heap, initialState, adjacencyMap, nodes, closedSet, emptyIdx,
                 forIndex, outside>>

\* Lines 145-150: the node taken from the frontier has no blank.
NoBlank ==
  /\ pc = "loop"
  /\ openSet # <<>>
  /\ ~SelectedIsGoal
  /\ blankNotFound(EmptyIdx)
  /\ openSet' = shift(Sorted)
  /\ currentNode' = Selected
  /\ emptyIdx' = EmptyIdx
  /\ result' = ReturnNull
  /\ pc' = "done"
  /\ UNCHANGED <<heap, initialState, adjacencyMap, nodes, closedSet, forIndex,
                 outside>>

\* Mutant: a missing entry ends the whole search with null.
NoAdjacencyFails ==
  /\ pc = "loop"
  /\ openSet # <<>>
  /\ ~SelectedIsGoal
  /\ ~blankNotFound(EmptyIdx)
  /\ getSquareNumberFromIndex(EmptyIdx) \notin DOMAIN adjacencyMap
  /\ openSet' = shift(Sorted)
  /\ currentNode' = Selected
  /\ emptyIdx' = EmptyIdx
  /\ result' = ReturnNull
  /\ pc' = "done"
  /\ UNCHANGED <<heap, initialState, adjacencyMap, nodes, closedSet, forIndex,
                 outside>>

\* Lines 152-158: the table has no entry for the blank's square.
NoAdjacency ==
  /\ pc = "loop"
  /\ openSet # <<>>
  /\ ~SelectedIsGoal
  /\ ~blankNotFound(EmptyIdx)
  /\ getSquareNumberFromIndex(EmptyIdx) \notin DOMAIN adjacencyMap
  /\ openSet' = shift(Sorted)
  /\ currentNode' = Selected
  /\ emptyIdx' = EmptyIdx
  /\ UNCHANGED <<pc, heap, initialState, adjacencyMap, nodes, closedSet,
                 forIndex, result, outside>>

\* Lines 130-160: a node is taken from the frontier to be expanded.
Expand ==
  /\ pc = "loop"
  /\ openSet # <<>>
  /\ ~SelectedIsGoal
  /\ ~blankNotFound(EmptyIdx)
  /\ getSquareNumberFromIndex(EmptyIdx) \in DOMAIN adjacencyMap
  /\ openSet' = shift(Sorted)
  /\ currentNode' = Selected
  /\ emptyIdx' = EmptyIdx
  /\ forIndex' = 1
  /\ pc' = "for"
  /\ UNCHANGED <<heap, initialState, adjacencyMap, nodes, closedSet, result,
                 outside>>

\* Lines 160-213: one pass of the for loop over the listed squares.  What
\* the pass starts from and what it leaves are each bound once.
Visit ==
  /\ pc = "for"
  /\ ~forDone(forIndex, movablePieceSquareNumbers)
  /\ \E before \in {[heap |-> heap, nodes |-> nodes,
                      openSet |-> openSet, closedSet |-> closedSet]},
        movablePieceSquareNum \in {movablePieceSquareNumbers[forIndex]} :
     \E st \in {VisitNeighbor(before, currentNode, emptyIdx,
                              movablePieceSquareNum)} :
        /\ heap' = st.heap
        /\ nodes' = st.nodes
        /\ openSet' = st.openSet
        /\ closedSet' = st.closedSet
  /\ forIndex' = forIndex + 1
  /\ UNCHANGED <<pc, initialState, adjacencyMap, currentNode, emptyIdx, result,
                 outside>>

\* Lines 160, 213-214: the for loop is over, back to the while loop.
EndFor ==
  /\ pc = "for"
  /\ forDone(forIndex, movablePieceSquareNumbers)
  /\ pc' = "loop"
  /\ UNCHANGED <<heap, initialState, adjacencyMap, nodes, openSet, closedSet,
                 currentNode, emptyIdx, forIndex, result, outside>>

\* Line 215: the frontier is empty.
Exhausted ==
  /\ pc = "loop"
  /\ openSet = <<>>
  /\ result' = ReturnNull
  /\ pc' = "done"
  /\ UNCHANGED <<heap, initialState, adjacencyMap, nodes, openSet, closedSet,
                 currentNode, emptyIdx, forIndex, outside>>

(***************************************************************************)
(* The calls that are made: start boards and adjacency tables              *)
(***************************************************************************)
Range(seq) == {seq[i] : i \in 1..Len(seq)}

\* The boards one legal slide away from board b under the table adj: the
\* blank and a real tile on a square listed for the blank's square exchange
\* places.
Slides(b, adj) ==
  LET e == indexOf(b, 0)
  IN IF e = -1 \/ (e + 1) \notin DOMAIN adj THEN {}
     ELSE {[[b EXCEPT ![e + 1] = b[sq]] EXCEPT ![sq] = 0] :
             sq \in {t \in Range(adj[e + 1]) : b[t] # 0 /\ b[t] # null}}

RECURSIVE WithinSlides(_, _, _)
\* The boards at most k legal slides away from a board of S.
WithinSlides(S, adj, k) ==
  IF k = 0 THEN S
  ELSE WithinSlides(S \cup UNION {Slides(b, adj) : b \in S}, adj, k - 1)

\* How far from the goal the scrambled start boards are taken.
MaxScramble == 3

Scrambled == WithinSlides({GOAL_STATE}, POS_ADJACENCY, MaxScramble)

\* Solvable boards deeper than the scrambles: 11 and 12 slides from the goal.
DeepBoards == {<<1, 2, 3, 8, 6, 7, 4, 0, 5>>, <<1, 2, 3, 8, 6, 7, 0, 4, 5>>}

\* Permutations of 0..8 of the other parity: the goal with two tiles
\* exchanged, and the board of the test "known unsolvable board".
OddBoards == {<<1, 2, 3, 4, 5, 6, 8, 7, 0>>, <<1, 2, 3, 4, 6, 5, 7, 8, 0>>,
              <<8, 1, 2, 0, 4, 3, 7, 6, 5>>}

\* Boards that break the caller's contract: no blank, two blanks, a null slot.
MalformedBoards == {<<1, 2, 3, 4, 5, 6, 7, 8, 9>>, <<1, 2, 3, 4, 5, 6, 7, 0, 0>>,
                    <<1, 2, 3, 4, 5, null, 7, 8, 0>>, <<1, 2, 3, 4, 0, null, 7, 8, 6>>}

\* POS_ADJACENCY cut down to the squares of S; every square keeps an entry.
Restricted(S) ==
  [s \in 1..NUM_SQUARES |->
     LET Keep(t) == s \in S /\ t \in S
     IN SelectSeq(POS_ADJACENCY[s], Keep)]

\* POS_ADJACENCY with the entries of the squares of S only.
Partial(S) == [s \in S |-> POS_ADJACENCY[s]]

\* A table with a square listed for itself, a square listed twice and a
\* one-way entry.
Irregular == (9 :> <<9, 8, 8, 6>>) @@ (8 :> <<9, 7>>) @@ (7 :> <<8>>) @@ (6 :> <<>>)

SparseTables == {Restricted({5, 6, 8, 9}), Restricted({7, 8, 9}),
                 Partial({8, 9}), Partial({}), Irregular}

\* The calls: solvable boards with the full table; any board with a table
\* under which few boards are reachable; a board without blank with any table.
Inputs ==
  {[board |-> b, adj |-> POS_ADJACENCY] : b \in Scrambled \cup DeepBoards}
  \cup {[board |-> b, adj |-> t] :
          b \in Scrambled \cup OddBoards \cup MalformedBoards, t \in SparseTables}
  \cup {[board |-> <<1, 2, 3, 4, 5, 6, 7, 8, 9>>, adj |-> POS_ADJACENCY]}

Init ==
  /\ pc = "call"
  /\ \E inp \in Inputs :
       /\ adjacencyMap = inp.adj
       /\ \/ heap = <<GOAL_STATE, inp.board>> /\ initialState = Len(heap)
          \/ inp.board = GOAL_STATE /\ heap = <<GOAL_STATE>> /\ initialState = GoalRef
  /\ nodes = <<>>
  /\ openSet = <<>>
  /\ closedSet = {}
  /\ currentNode = 0
  /\ emptyIdx = -1
  /\ forIndex = 0
  /\ result = NoResult
  /\ args = NoCall
  /\ returned = NotReturned
  /\ self = 1
  /\ suspended = <<>>
  /\ NoPage

Next ==
  \/ AlreadySolved
  \/ Seed
  \/ ReachGoal
  \/ NoBlank
  \/ NoAdjacency
  \/ Expand
  \/ Visit
  \/ EndFor
  \/ Exhausted

Spec == Init /\ [][Next]_vars

\* The loop runs to its end: no iteration is put off for ever.
LiveSpec == Spec /\ WF_vars(Next)

(***************************************************************************)
(* Direct calls of getManhattanDistance                                    *)
(***************************************************************************)
\* return <number>: Infinity is a value of type number like any distance.
ReturnNumber(value) == [kind |-> "number", value |-> value]

\* How far from the goal the boards passed to the helpers are taken.
MaxShuffle == 11

Shuffled == WithinSlides({GOAL_STATE}, POS_ADJACENCY, MaxShuffle)

\* The boards of the tests of getManhattanDistance and two boards far from
\* the goal.
TestBoards == {<<1, 2, 3, 4, 5, 6, 7, 0, 8>>, <<1, 2, 3, 4, 5, 0, 7, 8, 6>>,
               <<1, 2, 3, 4, 0, 5, 7, 8, 6>>, <<4, 1, 2, 0, 5, 3, 7, 8, 6>>,
               <<8, 7, 6, 5, 4, 3, 2, 1, 0>>, <<0, 8, 7, 6, 5, 4, 3, 2, 1>>}

\* Boards of tiles 1..8 with a second blank or null slots.
GappedBoards == {<<1, 2, 3, 4, 5, 6, 7, 0, 0>>, <<1, 2, 3, 4, 5, null, 7, 8, 0>>,
                 <<1, 2, 3, 4, 0, null, 7, 8, 6>>, <<1, 2, 3, 4, 5, 6, 7, 8, null>>,
                 <<1, null, 3, 0, 5, 6, 7, 8, 2>>}

\* Permutations of 0..8 passed as board and as goal.
PairBoards == Scrambled \cup DeepBoards \cup OddBoards \cup TestBoards

\* Values passed as numSquares: squares and others, 9 among them.
GridSizes == {-1, 1, 2, 3, 4, 5, 8, 9, 10, 12, 16}

\* The calls getManhattanDistance(boardState, goalState, numSquares): the
\* arrays passed and the arguments.  The tests pass GOAL_STATE as goal (and
\* once as board); a board may be passed as its own goal.
HeuristicCalls ==
  {[heap |-> <<GOAL_STATE>>, boardState |-> GoalRef, goalState |-> GoalRef,
    numSquares |-> n] : n \in GridSizes}
  \cup {[heap |-> <<GOAL_STATE, b>>, boardState |-> 2, goalState |-> GoalRef,
          numSquares |-> NUM_SQUARES] :
            b \in Shuffled \cup PairBoards \cup GappedBoards}
  \cup {[heap |-> <<GOAL_STATE, b>>, boardState |-> 2, goalState |-> GoalRef,
          numSquares |-> n] : b \in TestBoards \cup GappedBoards, n \in GridSizes}
  \cup {[heap |-> <<GOAL_STATE, b>>, boardState |-> 2, goalState |-> 2,
          numSquares |-> NUM_SQUARES] :
            b \in Shuffled \cup PairBoards \cup GappedBoards}
  \cup {[heap |-> <<GOAL_STATE, b, g>>, boardState |-> 2, goalState |-> 3,
          numSquares |-> NUM_SQUARES] : b \in PairBoards, g \in PairBoards}

HeuristicInit ==
  /\ pc = "call"
  /\ \E c \in HeuristicCalls :
       /\ heap = c.heap
       /\ args = [fn |-> "getManhattanDistance", boardState |-> c.boardState,
                  goalState |-> c.goalState, numSquares |-> c.numSquares]
  /\ returned = NotReturned
  /\ self = 1
  /\ suspended = <<>>
  /\ NoPage
  /\ initialState = GoalRef
  /\ adjacencyMap = POS_ADJACENCY
  /\ nodes = <<>>
  /\ openSet = <<>>
  /\ closedSet = {}
  /\ currentNode = 0
  /\ emptyIdx = -1
  /\ forIndex = 0
  /\ result = NoResult

\* Lines 13-46: the call runs and returns.
CallGetManhattanDistance ==
  /\ pc = "call"
  /\ args.fn = "getManhattanDistance"
  /\ returned' = ReturnNumber(getManhattanDistance(heap[args.boardState],
                                heap[args.goalState], args.numSquares))
  /\ pc' = "done"
  /\ UNCHANGED <<heap, initialState, adjacencyMap, nodes, openSet, closedSet,
                 currentNode, emptyIdx, forIndex, result, args, self,
                 suspended, page>>

HeuristicNext == CallGetManhattanDistance

HeuristicSpec == HeuristicInit /\ [][HeuristicNext]_vars

(***************************************************************************)
(* Direct calls of applyMove                                               *)
(***************************************************************************)
\* return newBoardState: the reference of an array.
ReturnArray(ref) == [kind |-> "array", ref |-> ref]

\* Mutant: no copy is made, the array passed in is written and returned.
applyMoveInPlace(h, currentBoardState, pieceToMoveIndex, targetEmptyIndex) ==
  [heap |-> [h EXCEPT ![currentBoardState] =
               applyMove(@, pieceToMoveIndex, targetEmptyIndex)],
   ref |-> currentBoardState]

\* applyMove on the heap: newBoardState = [...currentBoardState] is a new
\* array, the only one written; gives the heap and the reference returned.
applyMoveCall(h, currentBoardState, pieceToMoveIndex, targetEmptyIndex) ==
  LET copy == SpreadCopy(h, currentBoardState)
  IN [heap |-> [copy.heap EXCEPT ![copy.ref] =
                  applyMove(@, pieceToMoveIndex, targetEmptyIndex)],
      ref |-> copy.ref]

\* The boards of the tests of applyMove.
MoveTestBoards == {<<1, 2, 3, 4, 5, 6, 7, 0, 8>>, <<1, 0, 2, 3, 4, 5, 6, 7, 8>>,
                   <<1, 2, 3, 4, 0, 5, 6, 7, 8>>, <<1, 2, 3, 4, 5, 0, 6, 7, 8>>,
                   <<1, null, 3, 0, 5, 6, 7, 8, 2>>}

MoveBoards == Scrambled \cup MoveTestBoards \cup GappedBoards \cup MalformedBoards

\* Values passed as pieceToMoveIndex and targetEmptyIndex: the slots of a
\* board and indices outside it.
SlotArgs == -1..(NUM_SQUARES + 1)

MoveInit ==
  /\ pc = "call"
  /\ \E b \in MoveBoards, from \in SlotArgs, to \in SlotArgs :
       /\ \/ heap = <<GOAL_STATE, b>>
          \/ b = GOAL_STATE /\ heap = <<GOAL_STATE>>
       /\ args = [fn |-> "applyMove", currentBoardState |-> Len(heap),
                  pieceToMoveIndex |-> from, targetEmptyIndex |-> to]
  /\ returned = NotReturned
  /\ self = 1
  /\ suspended = <<>>
  /\ NoPage
  /\ initialState = GoalRef
  /\ adjacencyMap = POS_ADJACENCY
  /\ nodes = <<>>
  /\ openSet = <<>>
  /\ closedSet = {}
  /\ currentNode = 0
  /\ emptyIdx = -1
  /\ forIndex = 0
  /\ result = NoResult

\* part_004 lines 55-84: the call runs and returns.
CallApplyMove ==
  /\ pc = "call"
  /\ args.fn = "applyMove"
  /\ LET call == applyMoveCall(heap, args.currentBoardState,
                               args.pieceToMoveIndex, args.targetEmptyIndex)
     IN /\ heap' = call.heap
        /\ returned' = ReturnArray(call.ref)
  /\ pc' = "done"
  /\ UNCHANGED <<initialState, adjacencyMap, nodes, openSet, closedSet,
                 currentNode, emptyIdx, forIndex, result, args, self,
                 suspended, page>>

MoveNext == CallApplyMove

MoveSpec == MoveInit /\ [][MoveNext]_vars

(***************************************************************************)
(* Several invocations of performAStarSearch with interleaved steps.  The  *)
(* function declares openSet and closedSet with const inside its body      *)
(* (lines 115-116) and every other name it writes is a local of the loop,  *)
(* so each invocation has a frame of its own; the heap of arrays and the   *)
(* module constant GOAL_STATE are the only things the invocations have in  *)
(* common.  Invocation 0 runs alone from start to end; invocation 1 has    *)
(* the arguments of invocation 0 and shares its steps with invocation 2.   *)
(***************************************************************************)

\* The locals of the running invocation.
Frame ==
  [pc |-> pc, initialState |-> initialState, adjacencyMap |-> adjacencyMap,
   nodes |-> nodes, openSet |-> openSet, closedSet |-> closedSet,
   currentNode |-> currentNode, emptyIdx |-> emptyIdx, forIndex |-> forIndex,
   result |-> result]

\* The frame of an invocation that was called and has not run a step.
NewFrame(ref, table) ==
  [pc |-> "call", initialState |-> ref, adjacencyMap |-> table,
   nodes |-> <<>>, openSet |-> <<>>, closedSet |-> {}, currentNode |-> 0,
   emptyIdx |-> -1, forIndex |-> 0, result |-> NoResult]

\* A closed set that lives at module level: the running invocation's set
\* stays in place when another invocation takes over.
ResumeSharingClosedSet(frame) ==
  /\ pc' = frame.pc
  /\ initialState' = frame.initialState
  /\ adjacencyMap' = frame.adjacencyMap
  /\ nodes' = frame.nodes
  /\ openSet' = frame.openSet
  /\ closedSet' = closedSet
  /\ currentNode' = frame.currentNode
  /\ emptyIdx' = frame.emptyIdx
  /\ forIndex' = frame.forIndex
  /\ result' = frame.result

\* An invocation goes on with the locals it had: lines 115-116 and the
\* declarations of the loop body bind them per invocation.
Resume(frame) ==
  /\ pc' = frame.pc
  /\ initialState' = frame.initialState
  /\ adjacencyMap' = frame.adjacencyMap
  /\ nodes' = frame.nodes
  /\ openSet' = frame.openSet
  /\ closedSet' = frame.closedSet
  /\ currentNode' = frame.currentNode
  /\ emptyIdx' = frame.emptyIdx
  /\ forIndex' = frame.forIndex
  /\ result' = frame.result

\* The running invocation is left where it is and another one that has not
\* returned runs its next step.  Invocation 0 is never interrupted and is
\* never returned to.
Switch(to) ==
  /\ to \in DOMAIN suspended
  /\ to # 0
  /\ suspended[to].pc # "done"
  /\ self = 0 => pc = "done"
  /\ self' = to
  /\ suspended' = [c \in (DOMAIN suspended \ {to}) \cup {self} |->
                     IF c = self THEN Frame ELSE suspended[c]]
  /\ Resume(suspended[to])
  /\ UNCHANGED <<heap, args, returned, page>>

\* The calls of the interleaved invocations: boards one and two slides from
\* the goal, the goal, a board without blank, and an unsolvable board with a
\* table of two squares.
PairCalls ==
  {[board |-> b, adj |-> POS_ADJACENCY] :
     b \in {GOAL_STATE, <<1, 2, 3, 4, 5, 6, 7, 0, 8>>,
            <<1, 2, 3, 4, 0, 5, 7, 8, 6>>, <<1, 2, 3, 4, 5, 6, 7, 8, 9>>}}
  \cup {[board |-> <<1, 2, 3, 4, 5, 6, 8, 7, 0>>, adj |-> Partial({8, 9})]}

\* Invocation 0 is about to run; invocations 1 and 2 have been called, with
\* two arrays or with one and the same array.
PairInit ==
  /\ \E x \in PairCalls, y \in PairCalls :
       \/ /\ heap = <<GOAL_STATE, x.board, y.board>>
          /\ initialState = 2
          /\ adjacencyMap = x.adj
          /\ suspended = (1 :> NewFrame(2, x.adj)) @@ (2 :> NewFrame(3, y.adj))
       \/ /\ x.board = y.board
          /\ heap = <<GOAL_STATE, x.board>>
          /\ initialState = 2
          /\ adjacencyMap = x.adj
          /\ suspended = (1 :> NewFrame(2, x.adj)) @@ (2 :> NewFrame(2, y.adj))
  /\ self = 0
  /\ NoPage
  /\ pc = "call"
  /\ nodes = <<>>
  /\ openSet = <<>>
  /\ closedSet = {}
  /\ currentNode = 0
  /\ emptyIdx = -1
  /\ forIndex = 0
  /\ result = NoResult
  /\ args = NoCall
  /\ returned = NotReturned

PairNext ==
  \/ AlreadySolved
  \/ Seed
  \/ ReachGoal
  \/ NoBlank
  \/ NoAdjacency
  \/ Expand
  \/ Visit
  \/ EndFor
  \/ Exhausted
  \/ \E to \in 1..2 : Switch(to)

PairSpec == PairInit /\ [][PairNext]_vars

(***************************************************************************)
(* Direct calls of isSolved and of the two conversions, as the tests of    *)
(* puzzleLogic make them; the number a conversion returns may be passed on *)
(* to the other conversion.                                                *)
(***************************************************************************)
ReturnBoolean(value) == [kind |-> "boolean", value |-> value]

\* The locals of performAStarSearch, which no direct call of a helper touches.
searchLocals == <<initialState, adjacencyMap, nodes, openSet, closedSet,
                  currentNode, emptyIdx, forIndex, result, self, suspended>>

\* performAStarSearch is not running.
NoSearch ==
  /\ self = 1
  /\ suspended = <<>>
  /\ NoPage
  /\ initialState = GoalRef
  /\ adjacencyMap = POS_ADJACENCY
  /\ nodes = <<>>
  /\ openSet = <<>>
  /\ closedSet = {}
  /\ currentNode = 0
  /\ emptyIdx = -1
  /\ forIndex = 0
  /\ result = NoResult

\* What a slot of a board passed to isSolved may hold.
SlotValues == 0..NUM_SQUARES \cup {null}

\* The boards passed to isSolved: GOAL_STATE with one slot changed, with
\* slots cut off at the end, with one slot added, and boards some slides away.
SolvedCandidates ==
  {[GOAL_STATE EXCEPT ![i] = v] : i \in 1..NUM_SQUARES, v \in SlotValues}
  \cup {SubSeq(GOAL_STATE, 1, n) : n \in 0..NUM_SQUARES}
  \cup {Append(GOAL_STATE, v) : v \in SlotValues}
  \cup {Append(b, 0) : b \in Scrambled}
  \cup Scrambled

\* The numbers passed to the conversions: every index and square number
\* and some numbers on either side.
NumberArgs == -2..(NUM_SQUARES + 2)

LogicCalls ==
  {[heap |-> <<GOAL_STATE>>, fn |-> "isSolved", boardState |-> GoalRef,
    number |-> 0]}
  \cup {[heap |-> <<GOAL_STATE, b>>, fn |-> "isSolved", boardState |-> 2,
          number |-> 0] : b \in SolvedCandidates}
  \cup {[heap |-> <<GOAL_STATE>>, fn |-> f, boardState |-> GoalRef,
          number |-> n] :
            f \in {"getSquareNumberFromIndex", "getIndexFromSquareNumber"},
            n \in NumberArgs}

LogicInit ==
  /\ pc = "call"
  /\ \E c \in LogicCalls :
       /\ heap = c.heap
       /\ args = [fn |-> c.fn, boardState |-> c.boardState,
                  number |-> c.number, chained |-> FALSE, first |-> c.number]
  /\ returned = NotReturned
  /\ NoSearch

\* Lines 32-40 of puzzleLogic.
CallIsSolved ==
  /\ pc = "call"
  /\ args.fn = "isSolved"
  /\ returned' = ReturnBoolean(isSolved(heap[args.boardState]))
  /\ pc' = "done"
  /\ UNCHANGED <<heap, args, searchLocals, page>>

\* Lines 92-94 of puzzleLogic.
CallGetSquareNumberFromIndex ==
  /\ pc = "call"
  /\ args.fn = "getSquareNumberFromIndex"
  /\ returned' = ReturnNumber(getSquareNumberFromIndex(args.number))
  /\ pc' = "done"
  /\ UNCHANGED <<heap, args, searchLocals, page>>

\* Lines 102-104 of puzzleLogic.
CallGetIndexFromSquareNumber ==
  /\ pc = "call"
  /\ args.fn = "getIndexFromSquareNumber"
  /\ returned' = ReturnNumber(getIndexFromSquareNumber(args.number))
  /\ pc' = "done"
  /\ UNCHANGED <<heap, args, searchLocals, page>>

\* The number one conversion returned is passed to the other one.
PassOn ==
  /\ pc = "done"
  /\ args.fn \in {"getSquareNumberFromIndex", "getIndexFromSquareNumber"}
  /\ ~args.chained
  /\ args' = [args EXCEPT
                !.fn = IF args.fn = "getSquareNumberFromIndex"
                       THEN "getIndexFromSquareNumber"
                       ELSE "getSquareNumberFromIndex",
                !.number = returned.value,
                !.chained = TRUE]
  /\ returned' = NotReturned
  /\ pc' = "call"
  /\ UNCHANGED <<heap, searchLocals, page>>

LogicNext ==
  \/ CallIsSolved
  \/ CallGetSquareNumberFromIndex
  \/ CallGetIndexFromSquareNumber
  \/ PassOn

LogicSpec == LogicInit /\ [][LogicNext]_vars

(***************************************************************************)
(* gameUI.ts: GameUIController.  The document has nine square elements     *)
(* sq-1..sq-9, each holding piece elements piece-n; the controller keeps   *)
(* the id of the free square, and moves pieces when a square is clicked,   *)
(* when Mix is clicked and when a solution is replayed.  A handler runs to *)
(* its end (or to its next await) before another handler starts; while the *)
(* callback of handleSolveClick is inside performAStarSearch the steps of  *)
(* the search run and nothing else does.                                   *)
(***************************************************************************)

\* Mutant: every value is found.
includesAlways(arr, v) == TRUE

\* Array.prototype.includes
includes(arr, v) == \E i \in 1..Len(arr) : arr[i] = v

\* Lines 211-227: 0 for the square freeSquareId names, else the number in the
\* id of the square's first piece, else null.
getBoardStateFromDOM(children, freeId) ==
  [i \in 1..NUM_SQUARES |->
     IF i = freeId THEN 0
     ELSE IF children[i] = <<>> THEN null
     ELSE Head(children[i])]

\* targetSquareEl.appendChild(piece), piece the first child of square from.
appendChild(children, from, to) ==
  [children EXCEPT ![from] = Tail(@),
                   ![to] = Append(@, Head(children[from]))]

\* The document as served: the pieces in order, square 9 empty and free.
SolvedLayout ==
  [children |-> [i \in 1..NUM_SQUARES |-> IF i = NUM_SQUARES THEN <<>> ELSE <<i>>],
   free |-> {NUM_SQUARES}]

\* A document whose eight pieces all carry the id piece-1.
RepeatedLayout ==
  [children |-> [i \in 1..NUM_SQUARES |-> IF i = NUM_SQUARES THEN <<>> ELSE <<1>>],
   free |-> {NUM_SQUARES}]

Layouts == {SolvedLayout, RepeatedLayout}

\* Lines 60-73: the first square with class 'free', else square 9.
findInitialFreeSquareIdSafe(doc) ==
  IF doc.free # {} THEN CHOOSE s \in doc.free : \A t \in doc.free : s <= t
  ELSE NUM_SQUARES

\* How many clicks are followed from the loading of the page.
MaxEvents == 4

\* The largest number typed into the moves input before a click on Mix.
MaxMixMoves == 1

\* Lines 32-57: the state of page and controller after the constructor.
Constructed(doc) ==
  /\ html = doc
  /\ squareChildren = doc.children
  /\ freeClass = IF doc.free # {} THEN doc.free ELSE {NUM_SQUARES}
  /\ freeSquareId = findInitialFreeSquareIdSafe(doc)
  /\ currentMoves = 0
  /\ solutionActions = <<>>
  /\ moveIndex = 0
  /\ botMessageArea = NoMessage
  /\ buttonsDisabled = FALSE
  /\ squareClicks = TRUE
  /\ transition = NoTransition
  /\ timer = "none"
  /\ winDisplay = FALSE
  /\ events = 0

\* performAStarSearch is not running and its locals do not exist.
SearchIdle ==
  /\ pc = "idle"
  /\ heap = <<GOAL_STATE>>
  /\ initialState = GoalRef
  /\ adjacencyMap = POS_ADJACENCY
  /\ nodes = <<>>
  /\ openSet = <<>>
  /\ closedSet = {}
  /\ currentNode = 0
  /\ emptyIdx = -1
  /\ forIndex = 0
  /\ result = NoResult
  /\ self = 1
  /\ suspended = <<>>

GameInit ==
  /\ \E doc \in Layouts : Constructed(doc)
  /\ SearchIdle
  /\ args = NoCall
  /\ returned = NotReturned

search == <<pc, heap, initialState, adjacencyMap, nodes, openSet, closedSet,
            currentNode, emptyIdx, forIndex, result, self, suspended, returned>>

\* toggleControlButtons(false); toggleSquareInteraction(false)
Enable ==
  /\ buttonsDisabled' = FALSE
  /\ squareClicks' = TRUE

\* Mutant: the listener of the squares stays bound when the buttons are
\* disabled.
DisableButtonsOnly ==
  /\ buttonsDisabled' = TRUE
  /\ squareClicks' = TRUE

\* toggleControlButtons(true); toggleSquareInteraction(true)
Disable ==
  /\ buttonsDisabled' = TRUE
  /\ squareClicks' = FALSE

\* Lines 194-209: the win markup replaces the message and the controls are
\* disabled.
triggerWinAnimation ==
  /\ botMessageArea' = [text |-> "Congratulations!!!", count |-> 0]
  /\ winDisplay' = TRUE
  /\ Disable

\* Lines 104-114: handleMoveLogic goes on after the await of movePieceOnDOM,
\* the pieces and the free square being children and freeId.
handleMoveLogicResumes(children, freeId) ==
  /\ currentMoves' = currentMoves + 1
  /\ IF isSolved(getBoardStateFromDOM(children, freeId))
     THEN triggerWinAnimation
     ELSE /\ Enable
          /\ UNCHANGED <<botMessageArea, winDisplay>>

\* Lines 178-192 and 98-102: a click on square sq while the listener is
\* bound.  A square with class 'free' and a square that does not list the
\* free square are ignored; else the controls are disabled and the piece of
\* the square starts its transition (movePieceOnDOM, lines 135-175), or, the
\* square holding no piece, handleMoveLogic goes on at once.
handleSquareClick(sq) ==
  /\ pc = "idle"
  /\ squareClicks
  /\ events < MaxEvents
  /\ events' = events + 1
  /\ args' = [fn |-> "handleSquareClick", square |-> sq]
  /\ IF sq \in freeClass
     THEN UNCHANGED <<currentMoves, botMessageArea, buttonsDisabled,
                      squareClicks, transition, winDisplay>>
     ELSE IF sq \in DOMAIN POS_ADJACENCY
             /\ includes(POS_ADJACENCY[sq], freeSquareId)
     THEN IF squareChildren[sq] = <<>>
          THEN /\ handleMoveLogicResumes(squareChildren, freeSquareId)
               /\ UNCHANGED transition
          ELSE /\ transition' = [from |-> sq, to |-> freeSquareId,
                                 by |-> "player"]
               /\ Disable
               /\ UNCHANGED <<currentMoves, botMessageArea, winDisplay>>
     ELSE UNCHANGED <<currentMoves, botMessageArea, buttonsDisabled,
                      squareClicks, transition, winDisplay>>
  /\ UNCHANGED <<squareChildren, freeClass, freeSquareId, solutionActions,
                 moveIndex, timer, html, search>>

\* Mutant: after a replayed move no further pass of performNextMove is
\* scheduled.
onTransitionEndForgetsTimer ==
  /\ pc = "idle"
  /\ transition.by # "none"
  /\ squareChildren' = appendChild(squareChildren, transition.from, transition.to)
  /\ freeClass' = (freeClass \cup {transition.from}) \ {transition.to}
  /\ freeSquareId' = transition.from
  /\ transition' = NoTransition
  /\ IF transition.by = "player"
     THEN /\ handleMoveLogicResumes(squareChildren', freeSquareId')
          /\ UNCHANGED <<moveIndex, timer>>
     ELSE /\ moveIndex' = moveIndex + 1
          /\ timer' = "none"
          /\ UNCHANGED <<currentMoves, botMessageArea, buttonsDisabled,
                         squareClicks, winDisplay>>
  /\ UNCHANGED <<solutionActions, events, html, args, search>>

\* Lines 158-172 and what awaits the promise: transitionend of the moving
\* square.  The piece becomes a child of the target square, the classes and
\* freeSquareId follow; then handleMoveLogic goes on (lines 104-114) or
\* performNextMove does (lines 320-324).
onTransitionEnd ==
  /\ pc = "idle"
  /\ transition.by # "none"
  /\ squareChildren' = appendChild(squareChildren, transition.from, transition.to)
  /\ freeClass' = (freeClass \cup {transition.from}) \ {transition.to}
  /\ freeSquareId' = transition.from
  /\ transition' = NoTransition
  /\ IF transition.by = "player"
     THEN /\ handleMoveLogicResumes(squareChildren', freeSquareId')
          /\ UNCHANGED <<moveIndex, timer>>
     ELSE /\ moveIndex' = moveIndex + 1
          /\ timer' = "performNextMove"
          /\ UNCHANGED <<currentMoves, botMessageArea, buttonsDisabled,
                         squareClicks, winDisplay>>
  /\ UNCHANGED <<solutionActions, events, html, args, search>>

\* Mutant: this.freeSquareId is not updated by a pass of the loop.
MixMoveKeepsFreeId(p) ==
  {[children |-> IF p.children[m] # <<>>
                 THEN appendChild(p.children, m, p.freeId)
                 ELSE p.children,
    free |-> (p.free \ {p.freeId}) \cup {m},
    freeId |-> p.freeId] : m \in Range(POS_ADJACENCY[p.freeId])}

\* Lines 243-255: one pass of the loop of handleMixClick from document p,
\* for each square Math.random may pick.
MixMove(p) ==
  {[children |-> IF p.children[m] # <<>>
                 THEN appendChild(p.children, m, p.freeId)
                 ELSE p.children,
    free |-> (p.free \ {p.freeId}) \cup {m},
    freeId |-> m] : m \in Range(POS_ADJACENCY[p.freeId])}

RECURSIVE MixMoves(_, _)
\* The documents n passes of the loop may lead to from the documents of P.
MixMoves(P, n) ==
  IF n = 0 THEN P
  ELSE MixMoves(UNION {MixMove(p) : p \in P}, n - 1)

\* Lines 229-263: a click on Mix with movesToMake in the moves input.
handleMixClick(movesToMake) ==
  /\ pc = "idle"
  /\ ~buttonsDisabled
  /\ events < MaxEvents
  /\ events' = events + 1
  /\ args' = [fn |-> "handleMixClick", movesToMake |-> movesToMake]
  /\ \E p \in MixMoves({[children |-> squareChildren, free |-> freeClass,
                         freeId |-> freeSquareId]}, movesToMake) :
       /\ squareChildren' = p.children
       /\ freeClass' = p.free
       /\ freeSquareId' = p.freeId
  /\ botMessageArea' = [text |-> "Shuffled N times. Good luck!",
                        count |-> movesToMake]
  /\ Enable
  /\ currentMoves' = 0
  /\ UNCHANGED <<solutionActions, moveIndex, transition, timer, winDisplay,
                 html, search>>

\* Lines 265-268 and 284: a click on Solve.
handleSolveClick ==
  /\ pc = "idle"
  /\ ~buttonsDisabled
  /\ events < MaxEvents
  /\ events' = events + 1
  /\ args' = [fn |-> "handleSolveClick"]
  /\ botMessageArea' = [text |-> "Solving, please wait...", count |-> 0]
  /\ Disable
  /\ timer' = "solve"
  /\ UNCHANGED <<squareChildren, freeClass, freeSquareId, currentMoves,
                 solutionActions, moveIndex, transition, winDisplay, html,
                 search>>

\* Lines 269-274: the callback of the timer of handleSolveClick reads the
\* board, gives up on a board with a null slot and else calls
\* performAStarSearch with the board and POS_ADJACENCY.
solveTimeout ==
  /\ pc = "idle"
  /\ timer = "solve"
  /\ timer' = "none"
  /\ LET currentBoardState == getBoardStateFromDOM(squareChildren, freeSquareId)
     IN IF includes(currentBoardState, null)
        THEN /\ botMessageArea' = [text |-> "Error: Invalid board state.",
                                   count |-> 0]
             /\ Enable
             /\ UNCHANGED <<pc, heap, initialState>>
        ELSE /\ heap' = <<GOAL_STATE, currentBoardState>>
             /\ initialState' = 2
             /\ pc' = "call"
             /\ UNCHANGED <<botMessageArea, buttonsDisabled, squareClicks>>
  /\ UNCHANGED <<squareChildren, freeClass, freeSquareId, currentMoves,
                 solutionActions, moveIndex, transition, winDisplay, events,
                 html, adjacencyMap, nodes, openSet, closedSet, currentNode,
                 emptyIdx, forIndex, result, self, suspended, args, returned>>

\* Lines 296-325: performNextMove with moveIndex = index, the message being
\* message and the listener of the squares being bound or not (clicks) when
\* it starts.  After the last action the replay ends; an action whose target
\* is not the free square ends it with an error; else the piece starts its
\* transition, or, there being no piece, the next pass is scheduled at once.
performNextMove(actions, index, message, clicks) ==
  IF index >= Len(actions)
  THEN /\ solutionActions' = <<>>
       /\ moveIndex' = index
       /\ transition' = NoTransition
       /\ timer' = "none"
       /\ IF isSolved(getBoardStateFromDOM(squareChildren, freeSquareId))
          THEN triggerWinAnimation
          ELSE /\ botMessageArea' = [text |-> "Animation complete!", count |-> 0]
               /\ Enable
               /\ UNCHANGED winDisplay
  ELSE LET action == actions[index + 1]
           pieceSquare == getSquareNumberFromIndex(action.fromIndex)
           targetSquare == getSquareNumberFromIndex(action.toIndex)
       IN /\ solutionActions' = actions
          /\ UNCHANGED winDisplay
          /\ IF freeSquareId # targetSquare
             THEN /\ botMessageArea' = [text |-> "Animation state error.",
                                        count |-> 0]
                  /\ Enable
                  /\ moveIndex' = index
                  /\ transition' = NoTransition
                  /\ timer' = "none"
             ELSE /\ botMessageArea' = message
                  /\ squareClicks' = clicks
                  /\ UNCHANGED buttonsDisabled
                  /\ IF pieceSquare \in 1..NUM_SQUARES
                        /\ squareChildren[pieceSquare] # <<>>
                     THEN /\ transition' = [from |-> pieceSquare,
                                            to |-> targetSquare, by |-> "bot"]
                          /\ moveIndex' = index
                          /\ timer' = "none"
                     ELSE /\ moveIndex' = index + 1
                          /\ timer' = "performNextMove"
                          /\ transition' = NoTransition

\* Mutant: an empty list of actions is always reported as a solved board.
SolvedMessageUnchecked(currentBoardState) ==
  [text |-> "Board is already solved!", count |-> 0]

\* Line 280-281: the message when performAStarSearch gave no action.
SolvedMessage(currentBoardState) ==
  IF isSolved(currentBoardState)
  THEN [text |-> "Board is already solved!", count |-> 0]
  ELSE [text |-> "No solution found.", count |-> 0]

\* performAStarSearch(...) || []
OrEmpty(res) == IF res.kind = "null" THEN <<>> ELSE res.path

\* Lines 274-283: performAStarSearch has returned to the callback of
\* handleSolveClick; its locals are gone.  With actions to replay the
\* message counts them and animateSolution starts (lines 287-326, the first
\* pass of performNextMove included); else the message tells why there are
\* none and the controls are enabled.
solveReturned ==
  /\ pc = "done"
  /\ LET actions == OrEmpty(result)
     IN IF Len(actions) > 0
        THEN performNextMove(actions, 0,
               [text |-> "Solution found! Animating N moves...",
                count |-> Len(actions)], FALSE)
        ELSE /\ solutionActions' = actions
             /\ botMessageArea' = SolvedMessage(heap[initialState])
             /\ Enable
             /\ UNCHANGED <<moveIndex, transition, timer, winDisplay>>
  /\ pc' = "idle"
  /\ heap' = <<GOAL_STATE>>
  /\ initialState' = GoalRef
  /\ nodes' = <<>>
  /\ openSet' = <<>>
  /\ closedSet' = {}
  /\ currentNode' = 0
  /\ emptyIdx' = -1
  /\ forIndex' = 0
  /\ result' = NoResult
  /\ UNCHANGED <<squareChildren, freeClass, freeSquareId, currentMoves, events,
                 html, adjacencyMap, self, suspended, args, returned>>

\* Line 324: the timer set after a replayed move fires and performNextMove
\* runs again.
nextMoveTimeout ==
  /\ pc = "idle"
  /\ timer = "performNextMove"
  /\ performNextMove(solutionActions, moveIndex, botMessageArea, squareClicks)
  /\ UNCHANGED <<squareChildren, freeClass, freeSquareId, currentMoves, events,
                 html, args, search>>

\* Line 205: a click on Play Again reloads the page.
playAgain ==
  /\ pc = "idle"
  /\ winDisplay
  /\ squareChildren' = html.children
  /\ freeClass' = IF html.free # {} THEN html.free ELSE {NUM_SQUARES}
  /\ freeSquareId' = findInitialFreeSquareIdSafe(html)
  /\ currentMoves' = 0
  /\ solutionActions' = <<>>
  /\ moveIndex' = 0
  /\ botMessageArea' = NoMessage
  /\ Enable
  /\ transition' = NoTransition
  /\ timer' = "none"
  /\ winDisplay' = FALSE
  /\ events' = 0
  /\ args' = NoCall
  /\ UNCHANGED <<html, search>>

\* The board read from the document has a blank and POS_ADJACENCY has an
\* entry for every square, so the search called from the page never takes
\* the branches for a missing blank or a missing entry.
GameNext ==
  \/ \E sq \in 1..NUM_SQUARES : handleSquareClick(sq)
  \/ onTransitionEnd
  \/ \E movesToMake \in 1..MaxMixMoves : handleMixClick(movesToMake)
  \/ handleSolveClick
  \/ solveTimeout
  \/ AlreadySolved
  \/ Seed
  \/ ReachGoal
  \/ Expand
  \/ Visit
  \/ EndFor
  \/ Exhausted
  \/ solveReturned
  \/ nextMoveTimeout
  \/ playAgain

GameSpec == GameInit /\ [][GameNext]_vars

(***************************************************************************)
(* What the claims speak of                                                *)
(***************************************************************************)
StartBoard == heap[initialState]

\* A permutation of 0..8: nine slots, one blank, every tile once.
IsPermutation(b) ==
  /\ Len(b) = NUM_SQUARES
  /\ \A v \in 0..(NUM_SQUARES - 1) : Cardinality({i \in 1..Len(b) : b[i] = v}) = 1

RECURSIVE DistanceFrom(_, _, _, _)
\* Breadth first over legal slides: the number of slides after which the
\* goal is first met, or -1 when the boards run out before.
DistanceFrom(frontier, seen, adj, d) ==
  IF GOAL_STATE \in frontier THEN d
  ELSE IF frontier = {} THEN -1
  ELSE LET next == UNION {Slides(b, adj) : b \in frontier} \ seen
       IN DistanceFrom(next, seen \cup next, adj, d + 1)

\* The least number of legal slides from board b to the goal (-1: none).
ShortestDistance(b, adj) == DistanceFrom({b}, {b}, adj, 0)

RECURSIVE ApplyFrom(_, _, _)
\* The board after the actions of path from position i on, by applyMove.
ApplyFrom(board, path, i) ==
  IF i > Len(path) THEN board
  ELSE ApplyFrom(applyMove(board, path[i].fromIndex, path[i].toIndex), path, i + 1)

\* C1: for a start board that is a permutation of 0..8 from which the goal
\* is reachable under POS_ADJACENCY, the call returns a sequence whose length
\* is the least number of legal slides from the start board to the goal.
C1_ShortestPath ==
  (/\ pc = "done"
   /\ adjacencyMap = POS_ADJACENCY
   /\ IsPermutation(StartBoard)
   /\ ShortestDistance(StartBoard, POS_ADJACENCY) # -1)
  => /\ result.kind = "path"
     /\ Len(result.path) = ShortestDistance(StartBoard, POS_ADJACENCY)

\* C2: when the call returns a sequence, applying its actions in order with
\* applyMove(board, fromIndex, toIndex), from the start board on, gives the
\* goal board.
C2_RoundTrip ==
  (pc = "done" /\ result.kind = "path")
  => ApplyFrom(StartBoard, result.path, 1) = GOAL_STATE

\* A call returned a sequence of at least three actions.
C2_Witness ==
  pc = "done" /\ result.kind = "path" /\ Len(result.path) >= 3

RECURSIVE ReachableFrom(_, _)
\* Every board some sequence of legal slides leads to from a board of S.
ReachableFrom(S, adj) ==
  LET more == S \cup UNION {Slides(b, adj) : b \in S}
  IN IF more = S THEN S ELSE ReachableFrom(more, adj)

\* The boards held by the search nodes.
NodeBoards == {heap[nodes[n].state] : n \in 1..Len(nodes)}

\* C4: when the call returns null for a valid start board and a table with
\* an entry for every square, the frontier is empty, every board reachable
\* from the start board by legal slides is the board of a node (it was
\* scheduled, taken from the frontier and expanded) and none is the goal.
C4_NullOnlyWhenExhausted ==
  (/\ pc = "done"
   /\ result.kind = "null"
   /\ IsPermutation(StartBoard)
   /\ (1..NUM_SQUARES) \subseteq DOMAIN adjacencyMap)
  => /\ openSet = <<>>
     /\ \A b \in ReachableFrom({StartBoard}, adjacencyMap) :
          /\ b \in NodeBoards
          /\ toString(b) \in closedSet
          /\ b # GOAL_STATE

\* Null was returned after a search over at least twelve reachable boards.
C4_Witness ==
  /\ pc = "done"
  /\ result.kind = "null"
  /\ IsPermutation(StartBoard)
  /\ (1..NUM_SQUARES) \subseteq DOMAIN adjacencyMap
  /\ Cardinality(ReachableFrom({StartBoard}, adjacencyMap)) >= 12

\* C5: for every start board of nine slots and every table over the squares
\* 1..9 the call ends: the loop eventually returns a sequence or null.
C5_Terminates == <>(pc = "done")

\* A call ended after at least twenty nodes were created.
C5_Witness == pc = "done" /\ Len(nodes) >= 20

\* C6: the call returns the empty sequence exactly when the start board
\* equals GOAL_STATE, then for any table and with no frontier or closed-set
\* work; for any other start board it returns null or at least one action.
C6_EmptyIffSolved ==
  pc = "done"
  => /\ (result = ReturnPath(<<>>)) <=> (StartBoard = GOAL_STATE)
     /\ StartBoard = GOAL_STATE
          => nodes = <<>> /\ openSet = <<>> /\ closedSet = {}
     /\ StartBoard # GOAL_STATE
          => result.kind = "null" \/ (result.kind = "path" /\ Len(result.path) >= 1)

\* The goal board was passed with the empty table and the call has returned.
C6_Witness ==
  /\ pc = "done"
  /\ StartBoard = GOAL_STATE
  /\ DOMAIN adjacencyMap = {}
  /\ result = ReturnPath(<<>>)

\* The one action that undoes the slide that led from the goal to board b.
UndoingAction(b) ==
  [tileValue |-> b[indexOf(GOAL_STATE, 0) + 1],
   fromIndex |-> indexOf(GOAL_STATE, 0),
   toIndex |-> indexOf(b, 0)]

\* C7: for a board one legal slide from GOAL_STATE the call with
\* POS_ADJACENCY returns exactly one action: fromIndex the slot of the
\* displaced tile, toIndex the blank slot of the start board, tileValue that
\* tile; start [1,2,3,4,5,6,7,0,8] gives [{tileValue 8, from 8, to 7}].
C7_OneSlideAway ==
  (/\ pc = "done"
   /\ adjacencyMap = POS_ADJACENCY
   /\ StartBoard \in Slides(GOAL_STATE, POS_ADJACENCY))
  => /\ result = ReturnPath(<<UndoingAction(StartBoard)>>)
     /\ StartBoard = <<1, 2, 3, 4, 5, 6, 7, 0, 8>>
          => result.path = <<[tileValue |-> 8, fromIndex |-> 8, toIndex |-> 7]>>

\* The call on [1,2,3,4,5,6,7,0,8] with POS_ADJACENCY has returned.
C7_Witness ==
  /\ pc = "done"
  /\ adjacencyMap = POS_ADJACENCY
  /\ StartBoard = <<1, 2, 3, 4, 5, 6, 7, 0, 8>>
  /\ result.kind = "path"

\* C8: a returned sequence is in play order: the first action's toIndex is
\* the blank slot of the start board and each later action's toIndex is the
\* fromIndex of the action before it; the two boards of the tests give
\* exactly the sequences the tests state.
C8_PlayOrder ==
  (pc = "done" /\ result.kind = "path")
  => /\ result.path # <<>> => result.path[1].toIndex = indexOf(StartBoard, 0)
     /\ \A i \in 2..Len(result.path) :
          result.path[i].toIndex = result.path[i - 1].fromIndex
     /\ (StartBoard = <<1, 2, 3, 4, 0, 5, 7, 8, 6>> /\ adjacencyMap = POS_ADJACENCY)
          => result.path = <<[tileValue |-> 5, fromIndex |-> 5, toIndex |-> 4],
                             [tileValue |-> 6, fromIndex |-> 8, toIndex |-> 5]>>
     /\ (StartBoard = <<1, 2, 3, 0, 4, 5, 7, 8, 6>> /\ adjacencyMap = POS_ADJACENCY)
          => result.path = <<[tileValue |-> 4, fromIndex |-> 4, toIndex |-> 3],
                             [tileValue |-> 5, fromIndex |-> 5, toIndex |-> 4],
                             [tileValue |-> 6, fromIndex |-> 8, toIndex |-> 5]>>

\* The call on [1,2,3,0,4,5,7,8,6] with POS_ADJACENCY returned three actions.
C8_Witness ==
  /\ pc = "done"
  /\ adjacencyMap = POS_ADJACENCY
  /\ StartBoard = <<1, 2, 3, 0, 4, 5, 7, 8, 6>>
  /\ Len(result.path) = 3

\* C9: no step of the call changes its inputs: the caller's start board
\* array, the GOAL_STATE array and the adjacency table keep their contents.
C9_InputsUnchanged ==
  [][/\ initialState' = initialState
     /\ heap'[initialState] = heap[initialState]
     /\ heap'[GoalRef] = heap[GoalRef]
     /\ adjacencyMap' = adjacencyMap]_vars

\* A call that expanded nodes and wrote successor boards has returned.
C9_Witness == pc = "done" /\ Len(heap) >= 10 /\ result.kind = "path"

\* C10: when the node taken from the frontier has no slot equal to 0, that
\* iteration returns null and creates no successor; for a start board
\* without blank that is not the goal this is the first iteration.
C10_NoBlankReturnsNull ==
  [][(/\ pc = "loop"
      /\ openSet # <<>>
      /\ 0 \notin Range(heap[nodes[Selected].state]))
     => /\ pc' = "done"
        /\ result' = ReturnNull
        /\ nodes' = nodes
        /\ closedSet' = closedSet
        /\ heap' = heap
        /\ 0 \notin Range(StartBoard) => currentNode' = 1 /\ Len(nodes) = 1]_vars

\* The call on a board without blank, with POS_ADJACENCY, returned null.
C10_Witness ==
  /\ pc = "done"
  /\ 0 \notin Range(StartBoard)
  /\ adjacencyMap = POS_ADJACENCY
  /\ result = ReturnNull

\* C11: when the table has no entry for the square of the blank of the node
\* taken from the frontier, that node gets no successor and the loop goes on
\* with the rest of the frontier, nothing returned; in a call on a board with
\* a blank, null is only ever returned with the frontier empty.
C11_SkipsNodeWithoutEntry ==
  [][/\ (/\ pc = "loop"
          /\ openSet # <<>>
          /\ ~areArraysEqual(heap[nodes[Selected].state], GOAL_STATE)
          /\ EmptyIdx # -1
          /\ (EmptyIdx + 1) \notin DOMAIN adjacencyMap)
         => /\ pc' = "loop"
            /\ result' = NoResult
            /\ openSet' = Tail(Sorted)
            /\ nodes' = nodes
            /\ closedSet' = closedSet
            /\ heap' = heap
     /\ (result' = ReturnNull /\ result # ReturnNull /\ 0 \in Range(StartBoard))
         => openSet = <<>> /\ openSet' = <<>>]_vars

\* A node whose blank is on a square without entry was just passed over and
\* the frontier still holds nodes.
C11_Witness ==
  /\ pc = "loop"
  /\ currentNode # 0
  /\ emptyIdx # -1
  /\ (emptyIdx + 1) \notin DOMAIN adjacencyMap
  /\ openSet # <<>>
  /\ result = NoResult

\* The arrays and the state of a direct call of getManhattanDistance.
HBoard == heap[args.boardState]

HGoal == heap[args.goalState]

HeuristicDone == pc = "done" /\ args.fn = "getManhattanDistance"

\* C12: getManhattanDistance called with a numSquares that is not a perfect
\* square signals a failure, an outcome that is no number, and returns no
\* value a caller can use as a heuristic number.
C12_NonSquareSignalsFailure ==
  (/\ HeuristicDone
   /\ \A d \in 0..args.numSquares : d * d # args.numSquares)
  => returned.kind # "number"

\* The JavaScript index of the slot of board b that holds tile t.
SlotOf(b, t) == CHOOSE i \in 0..(Len(b) - 1) : b[i + 1] = t

Gap(x, y) == IF x < y THEN y - x ELSE x - y

RECURSIVE TilesApart(_, _, _)
\* The sum, over the tiles 1..t, of the rows and columns between the slot
\* of the tile in b and its slot in g, on the 3 x 3 grid.
TilesApart(b, g, t) ==
  IF t = 0 THEN 0
  ELSE Gap(SlotOf(b, t) \div 3, SlotOf(g, t) \div 3)
       + Gap(SlotOf(b, t) % 3, SlotOf(g, t) % 3)
       + TilesApart(b, g, t - 1)

\* C13: for a board and a goal that are permutations of 0..8 and numSquares
\* 9, getManhattanDistance returns the sum over the tiles 1..8 of
\* |row - goal row| + |col - goal col|, row = floor(index / 3) and col =
\* index mod 3, the blank counting for nothing; the boards of the tests give
\* 0, 1, 1, 2 and 5.
C13_SumOfTileDistances ==
  (/\ HeuristicDone
   /\ args.numSquares = 9
   /\ IsPermutation(HBoard)
   /\ IsPermutation(HGoal))
  => /\ returned = ReturnNumber(TilesApart(HBoard, HGoal, 8))
     /\ HGoal = GOAL_STATE =>
          /\ HBoard = GOAL_STATE => returned.value = 0
          /\ HBoard = <<1, 2, 3, 4, 5, 6, 7, 0, 8>> => returned.value = 1
          /\ HBoard = <<1, 2, 3, 4, 5, 0, 7, 8, 6>> => returned.value = 1
          /\ HBoard = <<1, 2, 3, 4, 0, 5, 7, 8, 6>> => returned.value = 2
          /\ HBoard = <<4, 1, 2, 0, 5, 3, 7, 8, 6>> => returned.value = 5

\* The call on [4,1,2,0,5,3,7,8,6] with GOAL_STATE and 9 has returned.
C13_Witness ==
  /\ HeuristicDone
  /\ args.numSquares = 9
  /\ HBoard = <<4, 1, 2, 0, 5, 3, 7, 8, 6>>
  /\ HGoal = GOAL_STATE
  /\ returned.kind = "number"

C16_Admissible ==
  (/\ HeuristicDone
   /\ args.numSquares = 9
   /\ HGoal = GOAL_STATE
   /\ HBoard \in Shuffled \cup DeepBoards)
  => /\ returned.kind = "number"
     /\ ShortestDistance(HBoard, POS_ADJACENCY) # -1
     /\ returned.value <= ShortestDistance(HBoard, POS_ADJACENCY)

\* The call on a board 12 slides from the goal has returned.
C16_Witness ==
  /\ HeuristicDone
  /\ args.numSquares = 9
  /\ HGoal = GOAL_STATE
  /\ HBoard = <<1, 2, 3, 8, 6, 7, 0, 4, 5>>
  /\ ShortestDistance(HBoard, POS_ADJACENCY) = 12
  /\ returned.kind = "number"

\* C17: the heuristic is consistent: for a permutation b of 0..8 and every
\* board b' one legal slide from b under POS_ADJACENCY, the values for b and
\* b' (goal GOAL_STATE, numSquares 9) differ by at most 1.
C17_Consistent ==
  (/\ HeuristicDone
   /\ args.numSquares = 9
   /\ HGoal = GOAL_STATE
   /\ IsPermutation(HBoard))
  => \A b \in Slides(HBoard, POS_ADJACENCY) :
       LET h == getManhattanDistance(b, GOAL_STATE, NUM_SQUARES)
       IN returned.value <= 1 + h /\ h <= 1 + returned.value

\* The call on a board with the blank in the middle, four slides open, far
\* from the goal, has returned.
C17_Witness ==
  /\ HeuristicDone
  /\ args.numSquares = 9
  /\ HGoal = GOAL_STATE
  /\ IsPermutation(HBoard)
  /\ Cardinality(Slides(HBoard, POS_ADJACENCY)) = 4
  /\ returned.value >= 8

\* The array passed to a direct call of applyMove and the slots passed.
MBoard == heap[args.currentBoardState]

FromSlot == args.pieceToMoveIndex

ToSlot == args.targetEmptyIndex

MoveCalled == pc = "call" /\ args.fn = "applyMove"

\* C18: when board[toSlot] is the blank and board[fromSlot] is a real tile,
\* applyMove returns a board that holds that tile in toSlot, 0 in fromSlot
\* and in every other slot what the input held; the board of the test,
\* [1,2,3,4,5,6,7,0,8] with 8 and 7, gives [1,2,3,4,5,6,7,8,0].
C18_MovesTileIntoBlank ==
  [][(/\ MoveCalled
      /\ At(MBoard, ToSlot) = 0
      /\ At(MBoard, FromSlot) \notin {0, null, undefined})
     => /\ returned'.kind = "array"
        /\ Len(heap'[returned'.ref]) = Len(MBoard)
        /\ At(heap'[returned'.ref], ToSlot) = At(MBoard, FromSlot)
        /\ At(heap'[returned'.ref], FromSlot) = 0
        /\ \A i \in (0..(Len(MBoard) - 1)) \ {FromSlot, ToSlot} :
             At(heap'[returned'.ref], i) = At(MBoard, i)
        /\ (MBoard = <<1, 2, 3, 4, 5, 6, 7, 0, 8>> /\ FromSlot = 8 /\ ToSlot = 7)
             => heap'[returned'.ref] = GOAL_STATE]_vars

\* The call on [1,0,2,3,4,5,6,7,8] with slots 0 and 1 has returned.
C18_Witness ==
  /\ pc = "done"
  /\ args.fn = "applyMove"
  /\ MBoard = <<1, 0, 2, 3, 4, 5, 6, 7, 8>>
  /\ FromSlot = 0
  /\ ToSlot = 1
  /\ heap[returned.ref] = <<0, 1, 2, 3, 4, 5, 6, 7, 8>>

\* C19: applyMove never changes the array passed in, whatever the slot
\* arguments, valid or not: its contents after the call are those before.
C19_InputBoardUnchanged ==
  [][args.fn = "applyMove"
     => /\ args' = args
        /\ heap'[args.currentBoardState] = heap[args.currentBoardState]]_vars

\* A call with a legal move returned another array, with other contents,
\* than the one passed in.
C19_Witness ==
  /\ pc = "done"
  /\ args.fn = "applyMove"
  /\ returned.ref # args.currentBoardState
  /\ heap[returned.ref] # MBoard
  /\ MBoard = <<1, 2, 3, 4, 0, 5, 6, 7, 8>>

\* C20: when board[toSlot] is not the blank, applyMove returns a board equal
\* slot by slot to the input board, for any fromSlot; the board of the test,
\* [1,2,3,4,5,0,6,7,8] with 0 and 1, comes back as it was.
C20_NoOpWhenTargetNotBlank ==
  [][(MoveCalled /\ At(MBoard, ToSlot) # 0)
     => /\ returned'.kind = "array"
        /\ heap'[returned'.ref] = MBoard]_vars

\* The call on [1,2,3,4,5,0,6,7,8] with slots 0 and 1 has returned.
C20_Witness ==
  /\ pc = "done"
  /\ args.fn = "applyMove"
  /\ MBoard = <<1, 2, 3, 4, 5, 0, 6, 7, 8>>
  /\ FromSlot = 0
  /\ ToSlot = 1
  /\ heap[returned.ref] = MBoard

\* C21: when fromSlot holds no real tile (the blank, null, or nothing: an
\* index outside the array), applyMove returns a board equal to the input
\* board slot by slot and in length, also when board[toSlot] is the blank.
C21_NoOpWhenSourceNotTile ==
  [][(MoveCalled /\ At(MBoard, FromSlot) \in {0, null, undefined})
     => /\ returned'.kind = "array"
        /\ Len(heap'[returned'.ref]) = Len(MBoard)
        /\ heap'[returned'.ref] = MBoard]_vars


\* The frame of invocation c, running or not.
FrameOf(c) == IF self = c THEN Frame ELSE suspended[c]

\* The boards of the nodes created by an invocation, in order of creation.
BoardsOf(frame) == [i \in DOMAIN frame.nodes |-> heap[frame.nodes[i].state]]

\* C22: an invocation whose steps were interleaved in any order with those
\* of another invocation returns what the invocation with the same start
\* board and adjacency table returned when it ran alone, and it has built
\* the same nodes and the same closed set and leaves the same frontier.
C22_InterleavedAsAlone ==
  (FrameOf(1).pc = "done")
    => /\ FrameOf(0).pc = "done"
       /\ FrameOf(1).result = FrameOf(0).result
       /\ FrameOf(1).closedSet = FrameOf(0).closedSet
       /\ BoardsOf(FrameOf(1)) = BoardsOf(FrameOf(0))
       /\ Len(FrameOf(1).openSet) = Len(FrameOf(0).openSet)

\* Both invocations have returned a path, and an array was created by
\* invocation 2 between two arrays created by invocation 1.
C22_Witness ==
  /\ FrameOf(1).pc = "done"
  /\ FrameOf(2).pc = "done"
  /\ FrameOf(1).result.kind = "path"
  /\ FrameOf(2).result.kind = "path"
  /\ \E i \in DOMAIN FrameOf(1).nodes, j \in DOMAIN FrameOf(2).nodes,
        k \in DOMAIN FrameOf(1).nodes :
       /\ FrameOf(1).nodes[i].state < FrameOf(2).nodes[j].state
       /\ FrameOf(2).nodes[j].state < FrameOf(1).nodes[k].state

\* The board passed to isSolved.
SBoard == heap[args.boardState]

IsSolvedDone == pc = "done" /\ args.fn = "isSolved"

\* C23: isSolved returns a boolean for a board of any length, and true
\* exactly when the board is as long as GOAL_STATE and holds in every slot
\* what GOAL_STATE holds there.
C23_IsSolvedIffGoal ==
  IsSolvedDone
    => /\ returned.kind = "boolean"
       /\ returned.value
            = (/\ Len(SBoard) = Len(GOAL_STATE)
               /\ \A i \in 1..Len(GOAL_STATE) : SBoard[i] = GOAL_STATE[i])

\* A board that is GOAL_STATE with one more slot was answered false.
C23_Witness ==
  /\ IsSolvedDone
  /\ Len(SBoard) = Len(GOAL_STATE) + 1
  /\ SubSeq(SBoard, 1, Len(GOAL_STATE)) = GOAL_STATE
  /\ returned.value = FALSE

ConversionDone ==
  /\ pc = "done"
  /\ args.fn \in {"getSquareNumberFromIndex", "getIndexFromSquareNumber"}

\* C24: for an index i of 0..8 getSquareNumberFromIndex returns i + 1, which
\* lies in 1..9, and getIndexFromSquareNumber of that returns i; for a square
\* number s of 1..9 getSquareNumberFromIndex of getIndexFromSquareNumber(s)
\* returns s.
C24_ConversionsInverse ==
  /\ (/\ ConversionDone
      /\ ~args.chained
      /\ args.fn = "getSquareNumberFromIndex"
      /\ args.first \in 0..(NUM_SQUARES - 1))
       => /\ returned.value = args.first + 1
          /\ returned.value \in 1..NUM_SQUARES
  /\ (/\ ConversionDone
      /\ args.chained
      /\ args.fn = "getIndexFromSquareNumber"
      /\ args.first \in 0..(NUM_SQUARES - 1))
       => returned.value = args.first
  /\ (/\ ConversionDone
      /\ args.chained
      /\ args.fn = "getSquareNumberFromIndex"
      /\ args.first \in 1..NUM_SQUARES)
       => returned.value = args.first

\* Index 8 was converted to square 9 and back.
C24_Witness ==
  /\ ConversionDone
  /\ args.chained
  /\ args.fn = "getIndexFromSquareNumber"
  /\ args.first = NUM_SQUARES - 1
  /\ args.number = NUM_SQUARES
  /\ returned.value = NUM_SQUARES - 1

\* The row and the column of square s on the grid of three by three, squares
\* numbered row by row as the slots of a board are.
RowOf(s) == (s - 1) \div 3

ColOf(s) == (s - 1) % 3

Differ(a, b) == IF a >= b THEN a - b ELSE b - a

SharesEdge(s, t) ==
  \/ Differ(RowOf(s), RowOf(t)) = 1 /\ Differ(ColOf(s), ColOf(t)) = 0
  \/ Differ(RowOf(s), RowOf(t)) = 0 /\ Differ(ColOf(s), ColOf(t)) = 1

\* C25: POS_ADJACENCY, the table the search is called with, has an entry
\* for each of the squares 1..9 and for no other key, and the entry of s
\* lists t exactly when s and t differ by one in the row or in the column and
\* not in the other; so t is listed for s exactly when s is listed for t, and
\* no square is listed for itself.
C25_AdjacencyIsGrid ==
  (adjacencyMap = POS_ADJACENCY)
    => /\ DOMAIN adjacencyMap = 1..NUM_SQUARES
       /\ \A s \in 1..NUM_SQUARES :
            /\ Range(adjacencyMap[s]) \subseteq 1..NUM_SQUARES
            /\ \A t \in 1..NUM_SQUARES :
                 (t \in Range(adjacencyMap[s])) <=> SharesEdge(s, t)
            /\ \A t \in 1..NUM_SQUARES :
                 (t \in Range(adjacencyMap[s])) <=> (s \in Range(adjacencyMap[t]))
            /\ s \notin Range(adjacencyMap[s])

\* A search with POS_ADJACENCY expanded a board with the blank on square 9,
\* visiting both squares listed for it, and one with the blank on square 6.
C25_Witness ==
  /\ adjacencyMap = POS_ADJACENCY
  /\ pc = "done"
  /\ \E i \in DOMAIN nodes, j \in DOMAIN nodes, k \in DOMAIN nodes :
       /\ heap[nodes[i].state][9] = 0
       /\ nodes[j].parent = i
       /\ heap[nodes[j].state][6] = 0
       /\ nodes[k].parent = j

\* The search is about to take a node from a frontier that is not empty.
Selecting == pc = "loop" /\ openSet # <<>>

\* C28: the node taken from the frontier for expansion was in the frontier,
\* only that node leaves it, and its f is at most the f of every node that
\* stays in the frontier.
C28_SelectsMinimalF ==
  [][Selecting
       => /\ currentNode' \in Range(openSet)
          /\ Range(openSet') = Range(openSet) \ {currentNode'}
          /\ Len(openSet') = Len(openSet) - 1
          /\ \A n \in Range(openSet') : nodes[currentNode'].f <= nodes[n].f]_vars

\* A node was just taken from a frontier in which two nodes of larger f stay
\* and which held a node of larger f in front of it.
C28_Witness ==
  /\ pc = "for"
  /\ forIndex = 1
  /\ Len(openSet) >= 2
  /\ \A n \in Range(openSet) : nodes[n].f > nodes[currentNode].f
  /\ \E n \in Range(openSet) : n < currentNode

\* The boards of the frontier, in the order of the frontier.
FrontierBoards == [i \in DOMAIN openSet |-> heap[nodes[openSet[i]].state]]

\* The board that pass k of the for loop over the squares listed for the
\* blank of the current node writes: the tile of the k-th listed square in the
\* blank's slot and the blank in the tile's slot.
GeneratedBoard(k) ==
  LET piece == getIndexFromSquareNumber(movablePieceSquareNumbers[k])
      board == heap[nodes[currentNode].state]
  IN Store(Store(board, emptyIdx, At(board, piece)), piece, 0)

\* C30: no two nodes hold the same board; the closed set holds exactly the
\* boards of the nodes (the start board from before the loop on), as
\* strings; no two entries of the frontier hold the same board; and a node
\* is pushed on the frontier in the step that creates it and adds its board
\* to the closed set, which did not hold it.
C30_NoBoardQueuedTwice ==
  /\ [](/\ \A i \in DOMAIN nodes, j \in DOMAIN nodes :
             heap[nodes[i].state] = heap[nodes[j].state] => i = j
        /\ pc \in {"loop", "for"}
             => closedSet = {toString(heap[nodes[i].state]) : i \in DOMAIN nodes}
        /\ \A i \in DOMAIN openSet, j \in DOMAIN openSet :
             FrontierBoards[i] = FrontierBoards[j] => i = j)
  /\ [][\A n \in DOMAIN nodes' \ DOMAIN nodes :
          /\ n \in Range(openSet')
          /\ toString(heap'[nodes'[n].state]) \notin closedSet
          /\ toString(heap'[nodes'[n].state]) \in closedSet']_vars

\* The last pass of the for loop wrote a board that is in the frontier, held
\* by a node with another parent, and pushed no node.
C30_Witness ==
  /\ pc = "for"
  /\ forIndex > 1
  /\ \E n \in Range(openSet) :
       /\ heap[nodes[n].state] = GeneratedBoard(forIndex - 1)
       /\ nodes[n].parent # currentNode
  /\ \A n \in DOMAIN nodes :
       nodes[n].parent = currentNode
         => heap[nodes[n].state] # GeneratedBoard(forIndex - 1)

\* A pass of the for loop is about to move a tile.
Generating ==
  /\ pc = "for"
  /\ forIndex <= Len(movablePieceSquareNumbers)
  /\ At(heap[nodes[currentNode].state],
        getIndexFromSquareNumber(movablePieceSquareNumbers[forIndex]))
       \notin {null, undefined}

\* The entries of the frontier that hold board b.
EntriesOf(b) == {n \in Range(openSet) : heap[nodes[n].state] = b}

\* f' of the board the coming pass generates: the g of the current node plus
\* one, plus the heuristic of the board.
NewF ==
  nodes[currentNode].g + 1
    + getManhattanDistance(GeneratedBoard(forIndex), GOAL_STATE, NUM_SQUARES)

\* C29: when a pass generates a board that the frontier holds an entry for,
\* the frontier stays as it is if the entry's f is at most the new f', and
\* otherwise the entry leaves the frontier and an entry for the board with
\* f' and the current node as parent enters it.
C29_StaleEntryReplaced ==
  [][(Generating /\ EntriesOf(GeneratedBoard(forIndex)) # {})
       => \A e \in EntriesOf(GeneratedBoard(forIndex)) :
            IF nodes[e].f <= NewF
            THEN openSet' = openSet
            ELSE /\ e \notin Range(openSet')
                 /\ \E n \in Range(openSet') :
                      /\ heap'[nodes'[n].state] = GeneratedBoard(forIndex)
                      /\ nodes'[n].f = NewF
                      /\ nodes'[n].parent = currentNode]_vars

\* The board of the page, as getBoardStateFromDOM reads it.
DomBoard == getBoardStateFromDOM(squareChildren, freeSquareId)

\* performAStarSearch returns to the callback of handleSolveClick.
SolveReturns == pc = "done" /\ pc' = "idle"

\* C26: when the search called by a Solve click on a board without null
\* slots returns, the message is one of three: 'Board is already solved!'
\* exactly when the board equals GOAL_STATE, 'Solution found! Animating N
\* moves...' with N the length of the returned path exactly when a path that
\* is not empty was returned, 'No solution found.' exactly when null was
\* returned.
C26_SolveMessages ==
  [][(SolveReturns /\ null \notin Range(heap[initialState]))
       => /\ botMessageArea'.text \in {"Board is already solved!",
                                      "Solution found! Animating N moves...",
                                      "No solution found."}
          /\ (botMessageArea'.text = "Board is already solved!")
               <=> (heap[initialState] = GOAL_STATE)
          /\ (botMessageArea' = [text |-> "Solution found! Animating N moves...",
                                 count |-> Len(result.path)])
               <=> (result.kind = "path" /\ Len(result.path) > 0)
          /\ (botMessageArea'.text = "No solution found.")
               <=> (result.kind = "null")]_vars

\* A Solve click on a board that is not solved ended with 'No solution
\* found.' and the controls enabled.
C26_Witness ==
  /\ args = [fn |-> "handleSolveClick"]
  /\ pc = "idle"
  /\ botMessageArea.text = "No solution found."
  /\ DomBoard # GOAL_STATE
  /\ null \notin Range(DomBoard)
  /\ ~buttonsDisabled

\* A click is delivered to handleSquareClick.
ClickDelivered == events' = events + 1 /\ args'.fn = "handleSquareClick"

\* Board b with the contents of squares i and j exchanged.
Exchanged(b, i, j) == [b EXCEPT ![i] = b[j], ![j] = b[i]]

RECURSIVE DistanceBetween(_, _, _, _, _)
\* Breadth first over legal slides: the number of slides after which board
\* target is first met, or -1 when the boards run out before.
DistanceBetween(frontier, seen, target, adj, d) ==
  IF target \in frontier THEN d
  ELSE IF frontier = {} THEN -1
  ELSE LET next == UNION {Slides(b, adj) : b \in frontier} \ seen
       IN DistanceBetween(next, seen \cup next, target, adj, d + 1)

\* A node has been taken from the frontier, to be expanded or returned.
NodeSelected == pc \in {"for", "done"} /\ currentNode # 0

\* C31: for a start board that is a permutation of 0..8 and POS_ADJACENCY, the
\* g of the node taken from the frontier is the least number of legal slides
\* from the start board to the node's board.
C31_SelectedGIsDistance ==
  (/\ NodeSelected
   /\ adjacencyMap = POS_ADJACENCY
   /\ IsPermutation(StartBoard))
  => nodes[currentNode].g
       = DistanceBetween({StartBoard}, {StartBoard},
                         heap[nodes[currentNode].state], POS_ADJACENCY, 0)

RECURSIVE ParentLinks(_, _)
\* The number of parent links from node n of arena ns to the root.
ParentLinks(ns, n) ==
  IF ns[n].parent = 0 THEN 0 ELSE 1 + ParentLinks(ns, ns[n].parent)

\* C32: every node has f = g + h and h the Manhattan distance of its board to
\* GOAL_STATE on nine squares; the first node is the root, with g = 0 and
\* neither parent nor action; every other node has an earlier node as parent
\* and g = parent.g + 1, so its g is the number of parent links to the root;
\* and no step changes a field or the board of a node that exists.
C32_NodeFieldsFixed ==
  /\ [](\A n \in DOMAIN nodes :
          /\ nodes[n].f = nodes[n].g + nodes[n].h
          /\ nodes[n].h = getManhattanDistance(heap[nodes[n].state],
                                               GOAL_STATE, NUM_SQUARES)
          /\ nodes[n].g = ParentLinks(nodes, n)
          /\ IF n = 1
             THEN /\ nodes[n].g = 0
                  /\ nodes[n].parent = 0
                  /\ nodes[n].action = NullAction
                  /\ nodes[n].state = initialState
             ELSE /\ nodes[n].parent \in 1..(n - 1)
                  /\ nodes[n].g = nodes[nodes[n].parent].g + 1)
  /\ [][\A n \in DOMAIN nodes :
          /\ n \in DOMAIN nodes'
          /\ nodes'[n] = nodes[n]
          /\ heap'[nodes[n].state] = heap[nodes[n].state]]_vars

\* The search has returned a path and created a node six links below the
\* root whose board is not the goal.
C32_Witness ==
  /\ pc = "done"
  /\ result.kind = "path"
  /\ \E n \in DOMAIN nodes : nodes[n].g = 6 /\ nodes[n].h > 0

\* The adjacency table lists squares of the board only, for squares of the
\* board only.
TableOverSquares ==
  /\ DOMAIN adjacencyMap \subseteq 1..NUM_SQUARES
  /\ \A s \in DOMAIN adjacencyMap :
       Range(adjacencyMap[s]) \subseteq 1..NUM_SQUARES

\* C33: for a start board that is a permutation of 0..8 and a table over the
\* squares 1..9, every node but the root holds a legal slide on its parent's
\* board: toIndex is the slot of the blank in the parent's board, the square
\* of fromIndex is listed for the blank's square, tileValue is a tile and is
\* what the parent's board holds at fromIndex, and the node's board is the
\* parent's board with the two slots exchanged.
C33_ActionsAreLegalSlides ==
  (IsPermutation(StartBoard) /\ TableOverSquares)
    => \A n \in DOMAIN nodes \ {1} :
         LET parentBoard == heap[nodes[nodes[n].parent].state]
             from == nodes[n].action.fromIndex
             to == nodes[n].action.toIndex
         IN /\ from \in 0..(NUM_SQUARES - 1)
            /\ to \in 0..(NUM_SQUARES - 1)
            /\ parentBoard[to + 1] = 0
            /\ (to + 1) \in DOMAIN adjacencyMap
            /\ (from + 1) \in Range(adjacencyMap[to + 1])
            /\ nodes[n].action.tileValue = parentBoard[from + 1]
            /\ nodes[n].action.tileValue \in 1..(NUM_SQUARES - 1)
            /\ heap[nodes[n].state] = Exchanged(parentBoard, from + 1, to + 1)

\* A search from a permutation with a table that lists a square for itself
\* and a square twice has created nodes below the root and has returned.
C33_Witness ==
  /\ pc = "done"
  /\ IsPermutation(StartBoard)
  /\ adjacencyMap = Irregular
  /\ Len(nodes) >= 3

\* C34: for a start board that is a permutation of 0..8 and a table over the
\* squares 1..9, the board of every node has nine slots, one blank and every
\* tile 1..8 once, and every string of the closed set is the string of such
\* a board.
C34_BoardsStayPermutations ==
  (IsPermutation(StartBoard) /\ TableOverSquares)
    => /\ \A n \in DOMAIN nodes : IsPermutation(heap[nodes[n].state])
       /\ \A str \in closedSet :
            \E n \in DOMAIN nodes :
              /\ str = toString(heap[nodes[n].state])
              /\ IsPermutation(heap[nodes[n].state])

\* A search from a board of the other parity with a table of four squares
\* has run out of boards after creating ten nodes or more.
C34_Witness ==
  /\ pc = "done"
  /\ result.kind = "null"
  /\ StartBoard \in OddBoards
  /\ Cardinality(closedSet) >= 10
  /\ Len(nodes) = Cardinality(closedSet)

\* C35: in a search from a permutation of 0..8 with POS_ADJACENCY, the node
\* taken from the frontier has an f that is at least the f of the node taken
\* before it.
C35_SelectedFNonDecreasing ==
  [][(/\ Selecting
      /\ currentNode # 0
      /\ adjacencyMap = POS_ADJACENCY
      /\ IsPermutation(StartBoard))
       => nodes[currentNode'].f >= nodes[currentNode].f]_vars

\* In a search from a permutation with POS_ADJACENCY a node was just taken
\* whose f is larger than the f of the root, the first node taken, and which
\* is neither the root nor a child of the root.
C35_Witness ==
  /\ pc = "for"
  /\ forIndex = 1
  /\ adjacencyMap = POS_ADJACENCY
  /\ IsPermutation(StartBoard)
  /\ nodes[currentNode].f > nodes[1].f
  /\ nodes[currentNode].g >= 2

\* C36: the board of every node of the frontier is in the closed set, as a
\* string; a board about to be generated that the closed set does not hold
\* matches no entry of the frontier; no step takes a string out of the
\* closed set; and a node leaves the frontier only in a step that takes a
\* node from it, and is the node taken.
C36_FrontierIsClosed ==
  /\ [](/\ \A n \in Range(openSet) :
             toString(heap[nodes[n].state]) \in closedSet
        /\ (Generating /\ toString(GeneratedBoard(forIndex)) \notin closedSet)
             => EntriesOf(GeneratedBoard(forIndex)) = {})
  /\ [][/\ closedSet \subseteq closedSet'
        /\ Range(openSet) \ Range(openSet') \subseteq {currentNode'}
        /\ Range(openSet) \ Range(openSet') # {} => Selecting]_vars

\* A pass of the for loop is about to generate a board that the closed set
\* does not hold, while the frontier holds five nodes or more.
C36_Witness ==
  /\ Generating
  /\ toString(GeneratedBoard(forIndex)) \notin closedSet
  /\ Len(openSet) >= 5

\* The page was served with the solved layout.
FromSolvedLayout == html = SolvedLayout

\* Board b can be reached from GOAL_STATE by legal slides under POS_ADJACENCY.
ReachableFromGoal(b) ==
  DistanceBetween({GOAL_STATE}, {GOAL_STATE}, b, POS_ADJACENCY, 0) # -1

\* C37: on a page served with the solved layout, whatever was clicked, the
\* board read from the document is a permutation of 0..8 whose blank is on
\* the square freeSquareId names, which alone has the class 'free'; the board
\* is reachable from GOAL_STATE by legal slides, when the page is loaded and
\* whenever it has changed; and the message is never 'No solution found.'.
C37_PageBoardSolvable ==
  /\ [](FromSolvedLayout
          => /\ IsPermutation(DomBoard)
             /\ DomBoard[freeSquareId] = 0
             /\ freeClass = {freeSquareId}
             /\ botMessageArea.text # "No solution found.")
  /\ FromSolvedLayout => ReachableFromGoal(DomBoard)
  /\ [][(FromSolvedLayout /\ DomBoard' # DomBoard)
          => ReachableFromGoal(DomBoard')]_vars

\* On a page served with the solved layout, Mix was clicked, the player then
\* moved a tile, and a click on Solve found a solution of three moves or more.
C37_Witness ==
  /\ FromSolvedLayout
  /\ args = [fn |-> "handleSolveClick"]
  /\ currentMoves >= 1
  /\ botMessageArea.text = "Solution found! Animating N moves..."
  /\ botMessageArea.count >= 3

\* A click on Solve is being served: its timer is pending, the search runs,
\* a replayed piece is moving or the next pass of performNextMove is
\* scheduled.
Solving == timer # "none" \/ pc # "idle" \/ transition.by = "bot"

\* The action performNextMove replays next.
NextAction == solutionActions[moveIndex + 1]

\* C38: from the click on Solve until the replay ends the buttons are
\* disabled and the squares take no click; the message is never 'Animation
\* state error.'; the list replayed is the one the search returned and stays
\* as it is; moveIndex goes up by one from 0; a replayed piece moves from the
\* square of fromIndex of the action at moveIndex into the square of its
\* toIndex, which is the free square; and the board changes only by that
\* exchange, at the end of that piece's transition.
C38_ReplayUndisturbed ==
  /\ [](/\ Solving => buttonsDisabled /\ ~squareClicks
        /\ botMessageArea.text # "Animation state error."
        /\ transition.by = "bot"
             => /\ moveIndex < Len(solutionActions)
                /\ transition.from = getSquareNumberFromIndex(NextAction.fromIndex)
                /\ transition.to = getSquareNumberFromIndex(NextAction.toIndex)
                /\ transition.to = freeSquareId
        /\ timer = "performNextMove" /\ moveIndex < Len(solutionActions)
             => freeSquareId = getSquareNumberFromIndex(NextAction.toIndex))
  /\ [][/\ SolveReturns => /\ solutionActions' = OrEmpty(result)
                           /\ Solving' => moveIndex' = 0
        /\ Solving /\ ~SolveReturns /\ Solving'
             => /\ solutionActions' = solutionActions
                /\ moveIndex' \in {moveIndex, moveIndex + 1}
                /\ moveIndex' # moveIndex => transition.by = "bot"
        /\ Solving /\ DomBoard' # DomBoard
             => /\ transition.by = "bot"
                /\ transition' = NoTransition
                /\ DomBoard' = Exchanged(DomBoard, NextAction.fromIndex + 1,
                                         NextAction.toIndex + 1)]_vars

\* The second action of a solution is being replayed: its piece is moving.
C38_Witness ==
  /\ transition.by = "bot"
  /\ moveIndex = 1
  /\ args = [fn |-> "handleSolveClick"]

\* A document whose square 8 holds no piece: the board read from it has a
\* null slot.
MissingPieceLayout ==
  [children |-> [i \in 1..NUM_SQUARES |-> IF i >= NUM_SQUARES - 1 THEN <<>> ELSE <<i>>],
   free |-> {NUM_SQUARES}]

GameLiveLayouts == Layouts \cup {MissingPieceLayout}

GameLiveInit ==
  /\ \E doc \in GameLiveLayouts : Constructed(doc)
  /\ SearchIdle
  /\ args = NoCall
  /\ returned = NotReturned

\* The statements of performAStarSearch and the return to the callback of
\* handleSolveClick: synchronous code, which runs on once started.
SearchRuns ==
  \/ AlreadySolved \/ Seed \/ ReachGoal \/ Expand \/ Visit \/ EndFor \/ Exhausted
  \/ solveReturned

\* Every started transition ends, every scheduled timer fires and running
\* code runs on; what the user clicks, and when, is left open.
GameFairness ==
  /\ WF_vars(onTransitionEnd)
  /\ WF_vars(solveTimeout)
  /\ WF_vars(nextMoveTimeout)
  /\ WF_vars(SearchRuns)

GameLiveSpec == GameLiveInit /\ [][GameNext]_vars /\ GameFairness

\* The buttons are enabled and the squares take clicks.
ControlsEnabled == ~buttonsDisabled /\ squareClicks

\* The messages with which a served click on Solve enables the controls.
EnablingMessages ==
  {"Error: Invalid board state.", "Board is already solved!",
   "No solution found.", "Animation state error.", "Animation complete!"}

\* C39: once Solve is clicked (its timer is pending, the controls disabled)
\* the page comes to a state where the controls are enabled or the win
\* display is shown; the controls come back while the click is served only
\* with one of the five messages of the enabling branches; and with the win
\* display shown the controls are disabled.
C39_SolveEndsEnabledOrWon ==
  /\ (timer = "solve") ~> (ControlsEnabled \/ winDisplay)
  /\ [](winDisplay => buttonsDisabled /\ ~squareClicks)
  /\ [](timer = "solve" => buttonsDisabled /\ ~squareClicks /\ ~winDisplay)
  /\ [][(Solving /\ ~buttonsDisabled')
          => /\ ControlsEnabled'
             /\ botMessageArea'.text \in EnablingMessages]_vars

\* A click on Solve ended with the win display after a replay of two moves or
\* more.
C39_Witness ==
  /\ winDisplay
  /\ args = [fn |-> "handleSolveClick"]
  /\ moveIndex >= 2

====
